---- MODULE Spec2Model ----
(***************************************************************************)
(* Hexapode: the gait engine (hexapod/motor_controller.py and the copy in  *)
(* navigation_autonome.py), the teleoperation loop (Deplacement_Manuel.py) *)
(* and the autonomous navigator (navigation_autonome.py).                  *)
(*                                                                         *)
(* Angles are exact rationals <<n, d>> (n/d degrees).  The gait tables are *)
(* written in hundredths of a degree, as the source writes two decimals.   *)
(***************************************************************************)
EXTENDS Integers, Sequences, FiniteSets, TLC

(* ------------------------------------------------------------------ *)
(* Constants of the program                                            *)
(* ------------------------------------------------------------------ *)

DXL_IDS == <<1, 2, 3, 4, 5, 6, 7, 8, 9, 10, 11, 12>>

\* Amplitude factors as exact rationals <<numerator, denominator>>.
FACTOR_WALK == <<2, 1>>
FACTOR_SLIDE == <<6, 5>>
FACTOR_TURN == <<1, 1>>

\* Tables in hundredths of a degree.
INIT_POSE ==
    <<3000, -3000, -3000, -3000, 1500, -3000, -1500, -3000, -3000, -3000, 3000, -3000>>

SEQ_MOVE_F ==
    << <<5154, -4000, -4000, -1000, 1000, -1000, -1000, -1000, -5000, -1000, 6154, -2000>>,
       <<4385, -2000, -4385, -1000, 1385, -1000, -1385, -1000, -4615, -1000, 6923, -3000>>,
       <<4769, -1000, -4769, -1000, 1769, -1000, -1769, -1000, -5385, -2000, 7692, -4000>>,
       <<5154, -1000, -5154, -1000, 2154, -1000, -2154, -1000, -6154, -3000, 8462, -2000>>,
       <<5538, -1000, -5538, -1000, 2538, -1000, -1385, -2000, -6923, -4000, 8077, -1000>>,
       <<5923, -1000, -5923, -1000, 2923, -1000, -615, -3000, -7692, -2000, 7692, -1000>>,
       <<6308, -1000, -6308, -1000, 2154, -2000, 154, -4000, -7308, -1000, 7308, -1000>>,
       <<6692, -1000, -6692, -1000, 1385, -3000, 923, -2000, -6923, -1000, 6923, -1000>>,
       <<7077, -1000, -5923, -2000, 615, -4000, 538, -1000, -6538, -1000, 6538, -1000>>,
       <<7462, -1000, -5154, -3000, -154, -2000, 154, -1000, -6154, -1000, 6154, -1000>>,
       <<6692, -2000, -4385, -4000, 231, -1000, -231, -1000, -5769, -1000, 5769, -1000>>,
       <<5923, -3000, -3615, -2000, 615, -1000, -615, -1000, -5385, -1000, 5385, -1000>> >>

SEQ_MOVE_B ==
    << <<5923, -3000, -3615, -2000, 615, -1000, -615, -1000, -5385, -1000, 5385, -1000>>,
       <<6692, -2000, -4385, -4000, 231, -1000, -231, -1000, -5769, -1000, 5800, -1000>>,
       <<7500, -1000, -5200, -3000, -200, -2000, 200, -1000, -6200, -1000, 6200, -1000>>,
       <<7100, -1000, -5900, -2000, 620, -4000, 500, -1000, -6500, -1000, 6500, -1000>>,
       <<6700, -1000, -6700, -1000, 1400, -3000, 900, -2000, -6900, -1000, 6900, -1000>>,
       <<6300, -1000, -6300, -1000, 2200, -2000, 200, -4000, -7300, -1000, 7300, -1000>>,
       <<5900, -1000, -5900, -1000, 2900, -1000, -620, -3000, -7700, -2000, 7700, -1000>>,
       <<5500, -1000, -5500, -1000, 2500, -1000, -1400, -2000, -6900, -4000, 8100, -1000>>,
       <<5200, -1000, -5200, -1000, 2200, -1000, -2200, -1000, -6200, -3000, 8500, -2000>>,
       <<4800, -1000, -4800, -1000, 1800, -1000, -1800, -1000, -5400, -2000, 7700, -4000>>,
       <<4400, -2000, -4400, -1000, 1400, -1000, -1400, -1000, -4600, -1000, 6900, -3000>>,
       <<5200, -4000, -4000, -1000, 1000, -1000, -1000, -1000, -5000, -1000, 6200, -2000>> >>

SEQ_SLIDE_R ==
    << <<0, -3500, -6000, -2500, 800, -6000, -800, -5000, 0, -3500, 4000, -2500>>,
       <<-1000, -2000, -5000, -5000, 800, -2000, -800, -3000, 1000, -2000, -1000, -5000>>,
       <<-1000, -4000, -5000, -2000, 800, -2000, -800, -3000, 1000, -4000, -1000, -2000>>,
       <<4000, -4000, -5000, -2000, 800, -2000, -800, -3000, -4000, -4000, -1000, -2000>>,
       <<6000, -2000, -6000, -3000, 800, -5000, -800, -5000, -6000, -2000, -1000, -3000>> >>

SEQ_SLIDE_L ==
    << <<6000, -2500, 0, -3500, 800, -5000, -800, -6000, -4000, -2500, 0, -3500>>,
       <<5000, -5000, 1000, -2000, 800, -3000, -800, -2000, 1000, -5000, -1000, -2000>>,
       <<5000, -2000, 1000, -4000, 800, -3000, -800, -2000, 1000, -2000, -1000, -4000>>,
       <<5000, -2000, -4000, -4000, 800, -3000, -800, -2000, 1000, -2000, 4000, -4000>>,
       <<6000, -3000, -6000, -2000, 800, -5000, -800, -5000, 1000, -3000, 6000, -2000>> >>

SEQ_PIVOT_L ==
    << <<5500, -2000, -5500, -4000, -700, -4000, 700, -2000, -3500, -2000, 3500, -4000>>,
       <<7000, -1000, -7000, -1000, -2200, -1000, 2200, -1000, -2000, -1000, 2000, -1000>>,
       <<5529, -4000, -5529, -2000, -729, -2000, 729, -4000, -3471, -4000, 3471, -2000>>,
       <<4000, -1000, -4000, -1000, 800, -1000, -800, -1000, -5000, -1000, 5000, -1000>> >>

SEQ_PIVOT_R ==
    << <<2500, -2000, -2500, -4000, 2300, -4000, -2300, -2000, -6500, -2000, 6500, -4000>>,
       <<1000, -1000, -1000, -1000, 3800, -1000, -3800, -1000, -8000, -1000, 8000, -1000>>,
       <<2529, -4000, -2529, -2000, 2271, -2000, -2271, -4000, -6471, -4000, 6471, -2000>>,
       <<4000, -1000, -4000, -1000, 800, -1000, -800, -1000, -5000, -1000, 5000, -1000>> >>

(* ------------------------------------------------------------------ *)
(* Bounds of the model                                                 *)
(* ------------------------------------------------------------------ *)

\* Full revolutions of one gait that the run counter follows before it
\* starts counting again (the cursor is then back at 0).
MaxRev == 2

\* Largest value of escape_steps the navigator is followed to (the code
\* lets it grow without limit while obstacles stay on both sides).
MaxEscapeSteps == 12

(* ------------------------------------------------------------------ *)
(* Pure functions                                                      *)
(* ------------------------------------------------------------------ *)

\* A table entry (hundredths of a degree) as a rational number of degrees.
Deg(v) == <<v, 100>>

Keyframe(row) == [i \in 1..Len(row) |-> Deg(row[i])]

\* int(x) of Python for the rational n/d (d > 0): truncation toward zero.
PyInt(n, d) == IF n >= 0 THEN n \div d ELSE -((-n) \div d)

\* Mutant of deg2dxl: 4096 steps to the turn, 4096/360 = 512/45.
deg2dxl_4096(deg) == PyInt(2048 * 45 * deg[2] + 512 * deg[1], 45 * deg[2])

\* int(2048 + deg * (4095.0 / 360.0)); 4095/360 = 91/8 exactly.
deg2dxl(deg) == PyInt(2048 * 8 * deg[2] + 91 * deg[1], 8 * deg[2])

RECURSIVE ColumnSum(_, _, _)
ColumnSum(sequence, i, k) ==
    IF k = 0 THEN 0 ELSE sequence[k][i] + ColumnSum(sequence, i, k - 1)

\* Mutant of amplify_sequence: the deltas are taken from the first
\* keyframe instead of the mean.
amplify_sequence_FromFirst(sequence, factor) ==
    LET N == Len(sequence)
        num_motors == Len(sequence[1])
        S(i) == N * sequence[1][i]
    IN  [k \in 1..N |->
          [i \in 1..num_motors |->
             << S(i) * factor[2] + (N * sequence[k][i] - S(i)) * factor[1],
                100 * N * factor[2] >> ]]

\* means[i] = S_i / N; new_val = means[i] + (step[i] - means[i]) * factor.
\* With step[i] = v/100 and factor = fn/fd this is
\*   (S_i*fd + (N*v - S_i)*fn) / (100*N*fd)   degrees.
amplify_sequence(sequence, factor) ==
    LET N == Len(sequence)
        num_motors == Len(sequence[1])
        S(i) == ColumnSum(sequence, i, N)
    IN  [k \in 1..N |->
          [i \in 1..num_motors |->
             << S(i) * factor[2] + (N * sequence[k][i] - S(i)) * factor[1],
                100 * N * factor[2] >> ]]

\* max(0, min(4095, goal_pos))
ClampMin(a, b) == IF a < b THEN a ELSE b
ClampMax(a, b) == IF a > b THEN a ELSE b
Clamp(goal_pos) == ClampMax(0, ClampMin(4095, goal_pos))

\* [DXL_LOBYTE(DXL_LOWORD(v)), DXL_HIBYTE(DXL_LOWORD(v)),
\*  DXL_LOBYTE(DXL_HIWORD(v)), DXL_HIBYTE(DXL_HIWORD(v))]
ParamBytes(v) ==
    << v % 256, (v \div 256) % 256, (v \div 65536) % 256, (v \div 16777216) % 256 >>

\* The 32-bit little-endian value a motor reads from its four bytes.
GoalOf(param) == param[1] + 256 * param[2] + 65536 * param[3] + 16777216 * param[4]

\* Mutant of StagedParams: motor ids counted from 0 (the slot index used
\* as the id).
StagedParams_SlotAsId(angles) ==
    [i \in 1..Len(DXL_IDS) |->
        [id |-> i - 1, param |-> ParamBytes(Clamp(deg2dxl(angles[i])))]]

\* The parameter list _write_positions stages: one entry per motor id of
\* DXL_IDS, in that order, slot i of the keyframe for DXL_IDS[i].
StagedParams(angles) ==
    [i \in 1..Len(DXL_IDS) |->
        [id |-> DXL_IDS[i], param |-> ParamBytes(Clamp(deg2dxl(angles[i])))]]

\* Sequences precomputed by MotorController.__init__.
seq_forward == amplify_sequence(SEQ_MOVE_F, FACTOR_WALK)
seq_backward == amplify_sequence(SEQ_MOVE_B, FACTOR_WALK)
seq_slide_left == amplify_sequence(SEQ_SLIDE_L, FACTOR_SLIDE)
seq_slide_right == amplify_sequence(SEQ_SLIDE_R, FACTOR_SLIDE)
seq_pivot_left == amplify_sequence(SEQ_PIVOT_L, FACTOR_TURN)
seq_pivot_right == amplify_sequence(SEQ_PIVOT_R, FACTOR_TURN)

GaitActions ==
    {"forward", "backward", "slide_left", "slide_right", "pivot_left", "pivot_right"}

Actions == GaitActions \cup {"stop"}

GaitOf(a) ==
    CASE a = "forward" -> seq_forward
      [] a = "backward" -> seq_backward
      [] a = "slide_left" -> seq_slide_left
      [] a = "slide_right" -> seq_slide_right
      [] a = "pivot_left" -> seq_pivot_left
      [] a = "pivot_right" -> seq_pivot_right

InitPacket == StagedParams(Keyframe(INIT_POSE))

(* ------------------------------------------------------------------ *)
(* State                                                               *)
(* ------------------------------------------------------------------ *)

VARIABLES
    \* MotorController
    connected,          \* self.connected
    staged,             \* parameters held by groupSyncWrite
    bus,                \* the last packet transmitted on the serial bus
    step_index,         \* self.step_index, the gait cursor
    current_action,     \* self.current_action
    err,                \* "none", or the exception an operation raised
    \* What the last operation did
    lastIdx,            \* cursor value the last motor call indexed with, -1 for stop
    tx,                 \* number of txPacket calls the last operation made
    runGait,            \* gait of the current run of consecutive steps, or "none"
    runLen,             \* steps of that run if it began at cursor 0, else -1
    decision,           \* what _decide_action was given and returned, or NoDecision
    \* Control loops
    pc,                 \* position of the control thread
    current_mode,       \* Deplacement_Manuel.main: current_mode
    \* AutonomousNavigator
    paused,             \* self.paused
    quit_requested,     \* self.quit_requested
    current_state,      \* self.current_state
    escape_direction,   \* self.escape_direction
    escape_steps,       \* self.escape_steps
    nav_step_index,     \* self.step_index of the navigator: created on resume, -1 before
    current_frame,      \* FastCamera.current_frame: NoFrame or <<frame>>
    \* Two navigators compared (policy determinism)
    twinA, twinB,       \* the fields of each navigator
    twin_out,           \* what the last pair of _decide_action calls returned
    \* ObstacleDetector (hexapod/obstacle_detector.py)
    obstacles,          \* the accepted contours of the frame, in contour order
    summary,            \* (danger, position) detect returns for them
    prev_summary,       \* the same before the last obstacle was added
    \* FastCamera threads
    frame_lock,         \* holder of self.frame_lock, or "free"
    cam_pc,             \* position of the capture thread
    decoded,            \* frame held by the capture thread: 0 for None
    frame_count,        \* frames decoded so far
    published,          \* frames written to the slot so far, in order
    reader_pc,          \* position of each thread calling get_frame
    reader_ret,         \* what each get_frame call last returned
    shared_lock,        \* holder of ManualStreamHandler.shared_lock, or "free"
    shared_frame,       \* ManualStreamHandler.shared_frame
    \* FastCamera._read_mjpeg
    stream,             \* bytes the subprocess writes to its stdout
    read_pos,           \* bytes read so far
    buffer,             \* the local buffer
    buffer_base,        \* offset in the stream of buffer[0]
    jpeg_data,          \* segments handed to cv2.imdecode so far: bytes, offset
    \* Serial bus of a MotorController
    port,               \* "unopened", "open" or "closed"
    baud_set,           \* setBaudRate succeeded
    torque,             \* motors whose last torque command was enable
    mc_pc,              \* position in the lifetime of the controller
    clears_connected,   \* disconnect clears self.connected (hexapod) or not
    tx_total,           \* broadcasts so far: 0, 1 or 2 for more
    \* The orchestrators (main of Deplacement_Manuel.py and of
    \* navigation_autonome.py) and what they acquire
    program,            \* "teleop" or "nav"
    main_pc,            \* position in main
    terminal,           \* "cooked" or "cbreak"
    process,            \* the camera subprocess: "none", "running", "terminated"
    temp_dir,           \* the fallback's directory: "none", "exists", "removed"
    http_server,        \* "none", "serving" or "shutdown"
    exit_path,          \* the way main was left, "none" before
    \* One call of _write_positions, step by step
    w_pc,               \* "none", "add" or "tx"
    w_i,                \* addParam calls made so far
    w_call,             \* <<action, keyframe index>> the call was given
    w_ret,              \* the caller to return to
    w_fate,             \* how the last call ended, "running" during it
    w_prev,             \* how the call before it ended
    w_last,             \* the action of the call before it
    \* Threads around the bus and the HTTP handlers
    in_motor,           \* threads inside a MotorController method
    shared_stats,       \* ManualStreamHandler.shared_stats['action']
    sent_to,            \* the handler served last since a client last left
    \* A pure function applied to an input
    fn,                 \* the function, "none" where none is applied
    args,               \* its arguments
    result,             \* what it returned, Pending before the call
    \* HexapodController (hexapode_control.py)
    running,            \* self.running
    current_movement,   \* self.current_movement
    movement_in_progress, \* self.movement_in_progress
    movement_lock,      \* holder of self.movement_lock, or "free"
    hx_pc,              \* position of the main loop and of the input listener
    hx_left,            \* keyframes each thread still has to execute
    movement,           \* run's local movement
    command             \* input_listener's local command

mcVars == <<connected, staged, bus, step_index, current_action, err>>
obsVars == <<lastIdx, tx, runGait, runLen, decision>>
fsmVars == <<current_state, escape_direction, escape_steps>>
navVars == <<paused, quit_requested, fsmVars, nav_step_index, current_frame>>
twinVars == <<twinA, twinB, twin_out>>
detVars == <<obstacles, summary, prev_summary>>
camVars == <<frame_lock, cam_pc, decoded, frame_count, published, reader_pc,
             reader_ret, shared_lock, shared_frame>>
mjpegVars == <<stream, read_pos, buffer, buffer_base, jpeg_data>>
busVars == <<port, baud_set, torque, mc_pc, clears_connected, tx_total>>
mainVars == <<program, main_pc, terminal, process, temp_dir, http_server, exit_path>>
tickVars == <<w_pc, w_i, w_call, w_ret, w_fate, w_prev, w_last>>
serveVars == <<in_motor, shared_stats, sent_to>>
sysVars == <<mainVars, tickVars, serveVars>>
fnVars == <<fn, args, result>>
hxVars == <<running, current_movement, movement_in_progress, movement_lock, hx_pc, hx_left,
           movement, command>>
extraVars == <<fnVars, hxVars>>
restVars == <<twinVars, detVars, camVars, mjpegVars, busVars, sysVars, extraVars>>
vars == <<mcVars, obsVars, pc, current_mode, navVars, restVars>>

NoDecision == [danger |-> "-", position |-> "-", action |-> "-"]

\* current_frame is None, or holds one frame: <<frame>>.
NoFrame == <<>>

(* ------------------------------------------------------------------ *)
(* MotorController                                                     *)
(* ------------------------------------------------------------------ *)

\* clearParam, twelve addParam, txPacket; nothing when not connected.
write_positions(angles) ==
    IF ~connected
    THEN /\ UNCHANGED <<staged, bus>>
         /\ tx' = 0
    ELSE /\ staged' = StagedParams(angles)
         /\ bus' = staged'
         /\ tx' = 1

NoWrite ==
    /\ UNCHANGED <<staged, bus>>
    /\ tx' = 0

\* An operation that calls nothing on the MotorController.
MotorIdle ==
    /\ UNCHANGED mcVars
    /\ UNCHANGED <<lastIdx, runGait, runLen>>
    /\ tx' = 0

\* Mutant of Advance: the cursor wraps one keyframe early.
Advance_WrapEarly(idx, n) == (idx + 1) % (n - 1)

\* (step_index + 1) % len(seq)
Advance(idx, n) == (idx + 1) % n

\* The run of consecutive steps of one gait: it is followed from a step
\* taken at cursor 0, for MaxRev revolutions, and then counted afresh.
RunStep(action, idx, n) ==
    /\ runGait' = action
    /\ runLen' = IF runGait = action /\ runLen >= 0
                 THEN (IF runLen >= MaxRev * n THEN 1 ELSE runLen + 1)
                 ELSE (IF idx = 0 THEN 1 ELSE -1)

RunEnd ==
    /\ runGait' = "none"
    /\ runLen' = -1

\* self.current_action = action
\* self._write_positions(seq[idx]); self.step_index = (idx + 1) % len(seq)
\* seq[idx] raises IndexError when idx is past the end of the table.
GaitStep(action, seq, idx) ==
    /\ current_action' = action
    /\ lastIdx' = idx
    /\ RunStep(action, idx, Len(seq))
    /\ UNCHANGED connected
    /\ IF idx < Len(seq)
       THEN /\ write_positions(seq[idx + 1])
            /\ step_index' = Advance(idx, Len(seq))
            /\ err' = err
       ELSE /\ NoWrite
            /\ step_index' = idx
            /\ err' = "IndexError"

\* Mutant of ResetOnChange: the cursor is reset on every call.
ResetOnChange_Always(name, si) == 0

\* if self.current_action != name: self.step_index = 0
ResetOnChange(name, si) == IF current_action # name THEN 0 ELSE si

\* The methods take si, the value of self.step_index when they are called.

\* Mutant of MotorController_stop: the cursor is left where it was.
MotorController_stop_KeepCursor(si) ==
    /\ IF current_action # "stop"
       THEN /\ current_action' = "stop"
            /\ step_index' = si
            /\ write_positions(Keyframe(INIT_POSE))
       ELSE /\ current_action' = current_action
            /\ step_index' = si
            /\ NoWrite
    /\ lastIdx' = -1
    /\ RunEnd
    /\ UNCHANGED <<connected, err>>

\* Mutant of MotorController_stop: the initial pose is not written.
MotorController_stop_NoWrite(si) ==
    /\ IF current_action # "stop"
       THEN /\ current_action' = "stop"
            /\ step_index' = 0
            /\ NoWrite
       ELSE /\ current_action' = current_action
            /\ step_index' = si
            /\ NoWrite
    /\ lastIdx' = -1
    /\ RunEnd
    /\ UNCHANGED <<connected, err>>

MotorController_stop(si) ==
    /\ IF current_action # "stop"
       THEN /\ current_action' = "stop"
            /\ step_index' = 0
            /\ write_positions(Keyframe(INIT_POSE))
       ELSE /\ current_action' = current_action
            /\ step_index' = si
            /\ NoWrite
    /\ lastIdx' = -1
    /\ RunEnd
    /\ UNCHANGED <<connected, err>>

MotorController_forward(si) == GaitStep("forward", seq_forward, si)

MotorController_backward(si) == GaitStep("backward", seq_backward, si)

\* Mutant of MotorController_slide_left: the cursor is not reset when the
\* action changes.
MotorController_slide_left_NoReset(si) ==
    GaitStep("slide_left", seq_slide_left, si)

MotorController_slide_left(si) ==
    GaitStep("slide_left", seq_slide_left, ResetOnChange("slide_left", si))

MotorController_slide_right(si) ==
    GaitStep("slide_right", seq_slide_right, ResetOnChange("slide_right", si))

MotorController_pivot_left(si) ==
    GaitStep("pivot_left", seq_pivot_left, ResetOnChange("pivot_left", si))

MotorController_pivot_right(si) ==
    GaitStep("pivot_right", seq_pivot_right, ResetOnChange("pivot_right", si))

\* motors.stop() followed by motors.disconnect(): stop writes the initial
\* pose when the action was not stop; disconnect writes it again when
\* connected.  hexapod's disconnect clears self.connected, the one of
\* navigation_autonome.py does not.
stop_then_disconnect(clears) ==
    /\ current_action' = "stop"
    /\ step_index' = IF current_action # "stop" THEN 0 ELSE step_index
    /\ IF connected
       THEN /\ staged' = StagedParams(Keyframe(INIT_POSE))
            /\ bus' = staged'
            /\ tx' = IF current_action # "stop" THEN 2 ELSE 1
       ELSE NoWrite
    /\ connected' = IF clears THEN FALSE ELSE connected
    /\ lastIdx' = -1
    /\ RunEnd
    /\ UNCHANGED err

\* MotorController.__init__: _connect succeeds or fails; on success the
\* initial pose is written.
MotorController_init ==
    /\ connected \in BOOLEAN
    /\ staged = IF connected THEN InitPacket ELSE <<>>
    /\ bus = staged
    /\ step_index = 0
    /\ current_action = "stop"
    /\ err = "none"
    /\ lastIdx = -1
    /\ tx = IF connected THEN 1 ELSE 0
    /\ runGait = "none"
    /\ runLen = -1
    /\ decision = NoDecision

\* The navigator and the camera before they exist.
NoNavigator ==
    /\ paused = FALSE
    /\ quit_requested = FALSE
    /\ current_state = "INIT"
    /\ escape_direction = "None"
    /\ escape_steps = 0
    /\ nav_step_index = -1
    /\ current_frame = NoFrame

\* The parts of the program a specification does not run.
NoTwins ==
    /\ twinA = <<>>
    /\ twinB = <<>>
    /\ twin_out = <<>>

NoDetector ==
    /\ obstacles = <<>>
    /\ summary = <<>>
    /\ prev_summary = <<>>

NoCameraThreads ==
    /\ frame_lock = "free"
    /\ cam_pc = "off"
    /\ decoded = 0
    /\ frame_count = 0
    /\ published = <<>>
    /\ reader_pc = <<>>
    /\ reader_ret = <<>>
    /\ shared_lock = "free"
    /\ shared_frame = NoFrame

NoMjpeg ==
    /\ stream = <<>>
    /\ read_pos = 0
    /\ buffer = <<>>
    /\ buffer_base = 0
    /\ jpeg_data = <<>>

NoBus ==
    /\ port = "unopened"
    /\ baud_set = FALSE
    /\ torque = {}
    /\ mc_pc = "off"
    /\ clears_connected = TRUE
    /\ tx_total = 0

NoMain ==
    /\ program = "none"
    /\ main_pc = "off"
    /\ terminal = "cooked"
    /\ process = "none"
    /\ temp_dir = "none"
    /\ http_server = "none"
    /\ exit_path = "none"

NoTick ==
    /\ w_pc = "none"
    /\ w_i = 0
    /\ w_call = <<"stop", 0>>
    /\ w_ret = "none"
    /\ w_fate = "none"
    /\ w_prev = "none"
    /\ w_last = "none"

NoServe ==
    /\ in_motor = {}
    /\ shared_stats = "stop"
    /\ sent_to = "none"

NoSystem == NoMain /\ NoTick /\ NoServe

\* No result yet.
Pending == <<>>

NoFunction ==
    /\ fn = "none"
    /\ args = <<>>
    /\ result = Pending

NoHexapodController ==
    /\ running = FALSE
    /\ current_movement = "still"
    /\ movement_in_progress = FALSE
    /\ movement_lock = "free"
    /\ hx_pc = <<>>
    /\ hx_left = <<>>
    /\ movement = "still"
    /\ command = ""

NoExtra == NoFunction /\ NoHexapodController

(* ------------------------------------------------------------------ *)
(* Specification Spec: a MotorController called in any order           *)
(* ------------------------------------------------------------------ *)

Init ==
    /\ MotorController_init
    /\ NoNavigator
    /\ NoSystem
    /\ NoExtra
    /\ NoTwins /\ NoDetector /\ NoCameraThreads /\ NoMjpeg /\ NoBus
    /\ pc = "api"
    /\ current_mode = "stop"

Idle == UNCHANGED <<decision, pc, current_mode, navVars, restVars>>

Next ==
    \/ MotorController_stop(step_index) /\ Idle
    \/ MotorController_forward(step_index) /\ Idle
    \/ MotorController_backward(step_index) /\ Idle
    \/ MotorController_slide_left(step_index) /\ Idle
    \/ MotorController_slide_right(step_index) /\ Idle
    \/ MotorController_pivot_left(step_index) /\ Idle
    \/ MotorController_pivot_right(step_index) /\ Idle

Spec == Init /\ [][Next]_vars

(* ------------------------------------------------------------------ *)
(* Specification SpecTeleop: the loop of Deplacement_Manuel.main       *)
(* ------------------------------------------------------------------ *)

\* key_actions; keys are lowered before the lookup.
MappedKeys == {"z", "s", "q", "d", "a", "e", " "}

key_actions(key) ==
    CASE key = "z" -> "forward"
      [] key = "s" -> "backward"
      [] key = "q" -> "slide_left"
      [] key = "d" -> "slide_right"
      [] key = "a" -> "pivot_left"
      [] key = "e" -> "pivot_right"
      [] key = " " -> "stop"

\* What keyboard.get_key() may return in one iteration: nothing, a mapped
\* key, or a key without meaning ("p").  "x" leaves the loop.
TeleopKeys == MappedKeys \cup {"None", "p"}

\* The motor call of one iteration.
Dispatch(mode, si) ==
    CASE mode = "stop" -> MotorController_stop(si)
      [] mode = "forward" -> MotorController_forward(si)
      [] mode = "backward" -> MotorController_backward(si)
      [] mode = "slide_left" -> MotorController_slide_left(si)
      [] mode = "slide_right" -> MotorController_slide_right(si)
      [] mode = "pivot_left" -> MotorController_pivot_left(si)
      [] mode = "pivot_right" -> MotorController_pivot_right(si)

\* One iteration of the while loop: read a key, change mode (writing
\* motors.step_index = 0 when the mode differs), run the motor call.
Teleop_tick(key) ==
    /\ pc = "loop"
    /\ LET mapped == key \in MappedKeys
           new_mode == IF mapped THEN key_actions(key) ELSE current_mode
           si == IF mapped /\ current_mode # new_mode THEN 0 ELSE step_index
       IN  /\ current_mode' = new_mode
           /\ Dispatch(new_mode, si)
    /\ decision' = NoDecision
    /\ UNCHANGED <<pc, navVars, restVars>>

\* Key "x" (break) or KeyboardInterrupt: the finally block.
Teleop_finally ==
    /\ pc = "loop"
    /\ pc' = "done"
    /\ stop_then_disconnect(TRUE)
    /\ decision' = NoDecision
    /\ UNCHANGED <<current_mode, navVars, restVars>>

InitTeleop ==
    /\ MotorController_init
    /\ NoNavigator
    /\ NoSystem
    /\ NoExtra
    /\ NoTwins /\ NoDetector /\ NoCameraThreads /\ NoMjpeg /\ NoBus
    /\ pc = "loop"
    /\ current_mode = "stop"

NextTeleop ==
    \/ \E key \in TeleopKeys : Teleop_tick(key)
    \/ Teleop_finally

SpecTeleop == InitTeleop /\ [][NextTeleop]_vars

(* ------------------------------------------------------------------ *)
(* Specification SpecNav: AutonomousNavigator (navigation_autonome.py) *)
(* ------------------------------------------------------------------ *)

\* self.max_escape_steps
max_escape_steps == 10

\* What the contour loop of ObstacleDetector.detect extracts from a frame:
\* has_left, has_right, and for the centre zone whether an obstacle lies
\* beyond dist 0.45 ("far") or beyond 0.55 ("near").
Frames == [has_left : BOOLEAN, has_right : BOOLEAN, center : {"none", "far", "near"}]

\* The summary of ObstacleDetector.detect.
detect(frame) ==
    LET has_center == frame.center # "none"
    IN  IF has_center /\ frame.center = "near"
        THEN [danger |-> "STOP", position |-> "CENTER"]
        ELSE IF has_center
        THEN [danger |-> "WARN", position |-> "CENTER"]
        ELSE IF frame.has_left /\ frame.has_right
        THEN [danger |-> "WARN", position |-> "BOTH"]
        ELSE IF frame.has_left
        THEN [danger |-> "OBS", position |-> "LEFT"]
        ELSE IF frame.has_right
        THEN [danger |-> "OBS", position |-> "RIGHT"]
        ELSE [danger |-> "OK", position |-> "None"]

\* The branches of _decide_action, from the escape direction ed and the
\* escape steps es: the action returned and the fields as they are left.
Outcome(action, state, ed, es) ==
    [action |-> action, current_state |-> state,
     escape_direction |-> ed, escape_steps |-> es]

\* Mutant of DecideStop: the robot stops in front of the obstacle.
DecideStop_Stops(ed, es) == Outcome("stop", "BLOCKED", ed, es)

\* if danger == "STOP"
DecideStop(ed, es) ==
    LET d == IF ed = "None" THEN "LEFT" ELSE ed
    IN  Outcome(IF d = "LEFT" THEN "slide_left" ELSE "slide_right", "BLOCKED", d, es)

\* Mutant of DecideCenter: the escape direction is not initialised.
DecideCenter_KeepsNone(ed, es) ==
    Outcome(IF ed = "RIGHT" THEN "slide_right" ELSE "slide_left", "AVOIDING", ed, es)

\* Mutant of DecideCenter: the escape is always to the left.
DecideCenter_AlwaysLeft(ed, es) == Outcome("slide_left", "AVOIDING", "LEFT", es)

\* if position == "CENTER"
DecideCenter(ed, es) ==
    LET d == IF ed = "None" THEN "LEFT" ELSE ed
    IN  Outcome(IF d = "LEFT" THEN "slide_left" ELSE "slide_right", "AVOIDING", d, es)

\* Mutant of DecideBoth: the direction alternates in blocks of six steps.
DecideBoth_BlocksOfSix(ed, es) ==
    Outcome(IF (es + 1) % 6 < 3 THEN "slide_left" ELSE "slide_right",
            "BLOCKED", ed, es + 1)

\* if position == "BOTH"
DecideBoth(ed, es) ==
    Outcome(IF (es + 1) % 10 < 5 THEN "slide_left" ELSE "slide_right",
            "BLOCKED", ed, es + 1)

\* Mutant of DecideLeft: the counter is reset one step early.
DecideLeft_ResetsEarly(ed, es) ==
    IF es + 1 >= max_escape_steps
    THEN Outcome("forward", "AVOIDING", "RIGHT", 0)
    ELSE Outcome("slide_right", "AVOIDING", "RIGHT", es + 1)

\* if position == "LEFT"
DecideLeft(ed, es) ==
    IF es + 1 > max_escape_steps
    THEN Outcome("forward", "AVOIDING", "RIGHT", 0)
    ELSE Outcome("slide_right", "AVOIDING", "RIGHT", es + 1)

\* if position == "RIGHT"
DecideRight(ed, es) ==
    IF es + 1 > max_escape_steps
    THEN Outcome("forward", "AVOIDING", "LEFT", 0)
    ELSE Outcome("slide_left", "AVOIDING", "LEFT", es + 1)

\* Mutant of DecideClear: the escape counter is kept.
DecideClear_KeepsCounter(ed, es) == Outcome("forward", "FORWARD", "None", es)

\* no obstacle
DecideClear(ed, es) == Outcome("forward", "FORWARD", "None", 0)

\* Mutant of decide_action: with obstacles on both sides the robot stops.
decide_action_StopsBetween(danger, position, ed, es) ==
    IF danger = "STOP" THEN DecideStop(ed, es)
    ELSE IF position = "CENTER" THEN DecideCenter(ed, es)
    ELSE IF position = "BOTH" THEN Outcome("stop", "BLOCKED", ed, es + 1)
    ELSE IF position = "LEFT" THEN DecideLeft(ed, es)
    ELSE IF position = "RIGHT" THEN DecideRight(ed, es)
    ELSE DecideClear(ed, es)

decide_action(danger, position, ed, es) ==
    IF danger = "STOP" THEN DecideStop(ed, es)
    ELSE IF position = "CENTER" THEN DecideCenter(ed, es)
    ELSE IF position = "BOTH" THEN DecideBoth(ed, es)
    ELSE IF position = "LEFT" THEN DecideLeft(ed, es)
    ELSE IF position = "RIGHT" THEN DecideRight(ed, es)
    ELSE DecideClear(ed, es)

\* Keys _handle_keyboard may read: nothing, space, the quit keys, or a key
\* without meaning ("z").
NavKeys == {"None", " ", "q", "Q", "ctrl_c", "z"}

\* Mutant of Pause: the motors are not stopped.
Pause_NoStop ==
    /\ MotorIdle
    /\ UNCHANGED <<nav_step_index, fsmVars>>

\* _handle_keyboard on pause: self.motors.stop()
Pause ==
    /\ MotorController_stop(step_index)
    /\ UNCHANGED <<nav_step_index, fsmVars>>

\* Mutant of Resume: the escape counter is cleared instead.
Resume_ClearsEscape ==
    /\ escape_steps' = 0
    /\ UNCHANGED <<nav_step_index, current_state, escape_direction>>

\* _handle_keyboard on resume: self.step_index = 0 (a field of the
\* navigator, not the cursor of self.motors).
Resume ==
    /\ nav_step_index' = 0
    /\ UNCHANGED fsmVars

\* _handle_keyboard, then the pause test of run.
Nav_handle_keyboard(key) ==
    /\ pc = "keyboard"
    /\ decision' = NoDecision
    /\ UNCHANGED <<current_mode, current_frame, restVars>>
    /\ IF key = " "
       THEN /\ paused' = ~paused
            /\ IF paused'
               THEN Pause
               ELSE /\ MotorIdle
                    /\ Resume
            /\ UNCHANGED quit_requested
            /\ pc' = IF paused' THEN "keyboard" ELSE "body"
       ELSE IF key \in {"ctrl_c", "q", "Q"}
       THEN /\ quit_requested' = TRUE
            /\ pc' = "finally"
            /\ MotorIdle
            /\ UNCHANGED <<paused, nav_step_index, fsmVars>>
       ELSE /\ pc' = IF paused THEN "keyboard" ELSE "body"
            /\ MotorIdle
            /\ UNCHANGED <<paused, quit_requested, nav_step_index, fsmVars>>

\* Mutant of Nav_body: an iteration without a frame is handled as the
\* summary (OK, None) and goes on to the decision and the motor call.
Nav_body_NoFrameIsOK ==
    /\ pc = "body"
    /\ pc' = "keyboard"
    /\ UNCHANGED <<current_mode, paused, quit_requested, nav_step_index, current_frame, restVars>>
    /\ LET seen == IF current_frame = NoFrame
                   THEN [danger |-> "OK", position |-> "None"]
                   ELSE detect(current_frame[1])
           r == decide_action(seen.danger, seen.position,
                              escape_direction, escape_steps)
       IN  /\ r.escape_steps <= MaxEscapeSteps
           /\ decision' = [danger |-> seen.danger, position |-> seen.position,
                           action |-> r.action]
           /\ current_state' = r.current_state
           /\ escape_direction' = r.escape_direction
           /\ escape_steps' = r.escape_steps
           /\ CASE r.action = "forward" -> MotorController_forward(step_index)
                [] r.action = "slide_left" -> MotorController_slide_left(step_index)
                [] r.action = "slide_right" -> MotorController_slide_right(step_index)
                [] OTHER -> MotorController_stop(step_index)

\* The rest of an iteration of run: frame, detection, decision, motor call.
Nav_body ==
    /\ pc = "body"
    /\ pc' = "keyboard"
    /\ UNCHANGED <<current_mode, paused, quit_requested, nav_step_index, current_frame, restVars>>
    /\ IF current_frame = NoFrame
       THEN /\ MotorIdle
            /\ decision' = NoDecision
            /\ UNCHANGED fsmVars
       ELSE LET seen == detect(current_frame[1])
                r == decide_action(seen.danger, seen.position,
                                   escape_direction, escape_steps)
            IN  /\ r.escape_steps <= MaxEscapeSteps
                /\ decision' = [danger |-> seen.danger, position |-> seen.position,
                                action |-> r.action]
                /\ current_state' = r.current_state
                /\ escape_direction' = r.escape_direction
                /\ escape_steps' = r.escape_steps
                /\ CASE r.action = "forward" -> MotorController_forward(step_index)
                     [] r.action = "slide_left" -> MotorController_slide_left(step_index)
                     [] r.action = "slide_right" -> MotorController_slide_right(step_index)
                     [] OTHER -> MotorController_stop(step_index)

\* KeyboardInterrupt raised in the loop.
Nav_interrupt ==
    /\ pc \in {"keyboard", "body"}
    /\ pc' = "finally"
    /\ MotorIdle
    /\ decision' = NoDecision
    /\ UNCHANGED <<current_mode, navVars, restVars>>

\* AutonomousNavigator.stop, from the finally block of run.
AutonomousNavigator_stop ==
    /\ pc = "finally"
    /\ pc' = "done"
    /\ stop_then_disconnect(FALSE)
    /\ decision' = NoDecision
    /\ UNCHANGED <<current_mode, navVars, restVars>>

\* The capture thread publishes a decoded frame.
Camera_publish(frame) ==
    /\ pc # "done"
    /\ current_frame' = <<frame>>
    /\ MotorIdle
    /\ decision' = NoDecision
    /\ UNCHANGED <<pc, current_mode, paused, quit_requested, fsmVars, nav_step_index, restVars>>

InitNav ==
    /\ MotorController_init
    /\ NoNavigator
    /\ NoSystem
    /\ NoExtra
    /\ NoTwins /\ NoDetector /\ NoCameraThreads /\ NoMjpeg /\ NoBus
    /\ pc = "keyboard"
    /\ current_mode = "stop"

NextNav ==
    \/ \E key \in NavKeys : Nav_handle_keyboard(key)
    \/ Nav_body
    \/ Nav_interrupt
    \/ AutonomousNavigator_stop
    \/ \E frame \in Frames : Camera_publish(frame)

SpecNav == InitNav /\ [][NextNav]_vars

(* ------------------------------------------------------------------ *)
(* Specification SpecPolicy: two navigators given the same inputs      *)
(* ------------------------------------------------------------------ *)

\* The (danger, position) pairs detect can return for a frame.
Summaries ==
    { [danger |-> "STOP", position |-> "CENTER"],
      [danger |-> "WARN", position |-> "CENTER"],
      [danger |-> "WARN", position |-> "BOTH"],
      [danger |-> "OBS", position |-> "LEFT"],
      [danger |-> "OBS", position |-> "RIGHT"],
      [danger |-> "OK", position |-> "None"] }

\* A navigator as _decide_action sees it: self, with the action of its
\* motors and its pause flag next to the fields of the policy.
NewNavigator ==
    [current_state |-> "INIT", escape_direction |-> "None", escape_steps |-> 0,
     current_action |-> "stop", paused |-> FALSE]

\* Mutant of AutonomousNavigator_decide_action: a navigator that was
\* going forward keeps going forward past a side obstacle.
AutonomousNavigator_decide_action_Inertia(self, danger, position) ==
    LET r == decide_action(danger, position,
                           self.escape_direction, self.escape_steps)
    IN  [self EXCEPT !.current_state = r.current_state,
                     !.escape_direction = r.escape_direction,
                     !.escape_steps = r.escape_steps,
                     !.current_action =
                         IF danger = "OBS" /\ self.current_state = "FORWARD"
                         THEN "forward" ELSE r.action]

\* self._decide_action(danger, position), then the motor call run makes
\* with the action returned (it becomes motors.current_action).
AutonomousNavigator_decide_action(self, danger, position) ==
    LET r == decide_action(danger, position,
                           self.escape_direction, self.escape_steps)
    IN  [self EXCEPT !.current_state = r.current_state,
                     !.escape_direction = r.escape_direction,
                     !.escape_steps = r.escape_steps,
                     !.current_action = r.action]

\* Space pressed: pause (motors.stop()) or resume.
TogglePause(self) ==
    IF self.paused
    THEN [self EXCEPT !.paused = FALSE]
    ELSE [self EXCEPT !.paused = TRUE, !.current_action = "stop"]

TwinIdle ==
    UNCHANGED <<mcVars, obsVars, pc, current_mode, navVars,
                detVars, camVars, mjpegVars, busVars, sysVars, extraVars>>

\* One navigator alone runs an iteration on a frame the other does not see.
Twin_step_A(seen) ==
    /\ ~twinA.paused
    /\ twinA' = AutonomousNavigator_decide_action(twinA, seen.danger, seen.position)
    /\ twinA'.escape_steps <= MaxEscapeSteps
    /\ twin_out' = <<>>
    /\ UNCHANGED twinB
    /\ TwinIdle

Twin_step_B(seen) ==
    /\ ~twinB.paused
    /\ twinB' = AutonomousNavigator_decide_action(twinB, seen.danger, seen.position)
    /\ twinB'.escape_steps <= MaxEscapeSteps
    /\ twin_out' = <<>>
    /\ UNCHANGED twinA
    /\ TwinIdle

Twin_pause_A ==
    /\ twinA' = TogglePause(twinA)
    /\ twin_out' = <<>>
    /\ UNCHANGED twinB
    /\ TwinIdle

Twin_pause_B ==
    /\ twinB' = TogglePause(twinB)
    /\ twin_out' = <<>>
    /\ UNCHANGED twinA
    /\ TwinIdle

\* Both navigators run an iteration on the same frame.
Twin_pair(seen) ==
    /\ ~twinA.paused
    /\ ~twinB.paused
    /\ twinA' = AutonomousNavigator_decide_action(twinA, seen.danger, seen.position)
    /\ twinB' = AutonomousNavigator_decide_action(twinB, seen.danger, seen.position)
    /\ twinA'.escape_steps <= MaxEscapeSteps
    /\ twinB'.escape_steps <= MaxEscapeSteps
    /\ twin_out' = <<seen>>
    /\ TwinIdle

InitPolicy ==
    /\ MotorController_init
    /\ ~connected
    /\ NoNavigator
    /\ NoSystem
    /\ NoExtra
    /\ NoDetector /\ NoCameraThreads /\ NoMjpeg /\ NoBus
    /\ pc = "twins"
    /\ current_mode = "stop"
    /\ twinA = NewNavigator
    /\ twinB = NewNavigator
    /\ twin_out = <<>>

NextPolicy ==
    \/ \E seen \in Summaries : Twin_step_A(seen)
    \/ \E seen \in Summaries : Twin_step_B(seen)
    \/ Twin_pause_A
    \/ Twin_pause_B
    \/ \E seen \in Summaries : Twin_pair(seen)

SpecPolicy == InitPolicy /\ [][NextPolicy]_vars

(* ------------------------------------------------------------------ *)
(* Specification SpecDetect: ObstacleDetector.detect (hexapod package)  *)
(* ------------------------------------------------------------------ *)

\* Distances are in hundredths of the height of the region of interest.
OBSTACLE_DIST_THRESHOLD_SIDE == 45
OBSTACLE_DIST_THRESHOLD_CENTER == 50
OBSTACLE_DIST_THRESHOLD_STOP == 65

\* Accepted contours of one frame, at most.
MaxObstacles == 3

\* dist = (y + bh) / (y2 - y1): values around each threshold.
Dists == {0, 45, 46, 50, 51, 65, 66, 100}

\* An accepted contour: pos is "G", "C" or "D".
Contours == [pos : {"G", "C", "D"}, dist : Dists]

NoFlags ==
    [has_left |-> FALSE, has_right |-> FALSE, has_center |-> FALSE,
     closest_center_dist |-> 0]

\* Mutant of Flag: the closest centre distance is the last one seen.
Flag_LastCenter(f, o) ==
    IF o.pos = "G"
    THEN [f EXCEPT !.has_left = @ \/ o.dist > OBSTACLE_DIST_THRESHOLD_SIDE]
    ELSE IF o.pos = "D"
    THEN [f EXCEPT !.has_right = @ \/ o.dist > OBSTACLE_DIST_THRESHOLD_SIDE]
    ELSE IF o.dist > OBSTACLE_DIST_THRESHOLD_CENTER
    THEN [f EXCEPT !.has_center = TRUE, !.closest_center_dist = o.dist]
    ELSE f

\* Mutant of Flag: a centre obstacle counts from the side threshold on.
Flag_CenterAtSideThreshold(f, o) ==
    IF o.pos = "G"
    THEN [f EXCEPT !.has_left = @ \/ o.dist > OBSTACLE_DIST_THRESHOLD_SIDE]
    ELSE IF o.pos = "D"
    THEN [f EXCEPT !.has_right = @ \/ o.dist > OBSTACLE_DIST_THRESHOLD_SIDE]
    ELSE IF o.dist > OBSTACLE_DIST_THRESHOLD_SIDE
    THEN [f EXCEPT !.has_center = TRUE,
                   !.closest_center_dist = ClampMax(@, o.dist)]
    ELSE f

\* The body of the contour loop for one accepted contour.
Flag(f, o) ==
    IF o.pos = "G"
    THEN [f EXCEPT !.has_left = @ \/ o.dist > OBSTACLE_DIST_THRESHOLD_SIDE]
    ELSE IF o.pos = "D"
    THEN [f EXCEPT !.has_right = @ \/ o.dist > OBSTACLE_DIST_THRESHOLD_SIDE]
    ELSE IF o.dist > OBSTACLE_DIST_THRESHOLD_CENTER
    THEN [f EXCEPT !.has_center = TRUE,
                   !.closest_center_dist = ClampMax(@, o.dist)]
    ELSE f

\* for cnt in contours: ...
RECURSIVE ContourLoop(_, _)
ContourLoop(f, cnts) ==
    IF cnts = <<>> THEN f ELSE ContourLoop(Flag(f, Head(cnts)), Tail(cnts))

\* The danger level and position detect returns.
ObstacleDetector_detect(cnts) ==
    LET f == ContourLoop(NoFlags, cnts)
    IN  IF f.has_center /\ f.closest_center_dist > OBSTACLE_DIST_THRESHOLD_STOP
        THEN [danger |-> "STOP", position |-> "CENTER"]
        ELSE IF f.has_center
        THEN [danger |-> "WARN", position |-> "CENTER"]
        ELSE IF f.has_left /\ f.has_right
        THEN [danger |-> "WARN", position |-> "BOTH"]
        ELSE IF f.has_left
        THEN [danger |-> "OBS", position |-> "LEFT"]
        ELSE IF f.has_right
        THEN [danger |-> "OBS", position |-> "RIGHT"]
        ELSE [danger |-> "OK", position |-> "None"]

DetectIdle ==
    UNCHANGED <<mcVars, obsVars, pc, current_mode, navVars,
                twinVars, camVars, mjpegVars, busVars, sysVars, extraVars>>

\* detect on a frame that shows the contours of the previous frame and
\* one more, found at place i of the contour list.
Detect_one_more(o, i) ==
    /\ Len(obstacles) < MaxObstacles
    /\ obstacles' = SubSeq(obstacles, 1, i) \o <<o>>
                       \o SubSeq(obstacles, i + 1, Len(obstacles))
    /\ summary' = ObstacleDetector_detect(obstacles')
    /\ prev_summary' = <<summary>>
    /\ DetectIdle

\* detect on a frame without any accepted contour.
Detect_empty ==
    /\ obstacles # <<>>
    /\ obstacles' = <<>>
    /\ summary' = ObstacleDetector_detect(obstacles')
    /\ prev_summary' = <<>>
    /\ DetectIdle

InitDetect ==
    /\ MotorController_init
    /\ ~connected
    /\ NoNavigator
    /\ NoSystem
    /\ NoExtra
    /\ NoTwins /\ NoCameraThreads /\ NoMjpeg /\ NoBus
    /\ pc = "detect"
    /\ current_mode = "stop"
    /\ obstacles = <<>>
    /\ summary = ObstacleDetector_detect(<<>>)
    /\ prev_summary = <<>>

NextDetect ==
    \/ \E o \in Contours : \E i \in 0..Len(obstacles) : Detect_one_more(o, i)
    \/ Detect_empty

SpecDetect == InitDetect /\ [][NextDetect]_vars

(* ------------------------------------------------------------------ *)
(* Specification SpecCamera: FastCamera and the threads that read it   *)
(* ------------------------------------------------------------------ *)

\* Frames the capture thread decodes in a run, at most.
MaxFrames == 2

\* Threads calling get_frame: the control loop (or a StreamHandler of
\* hexapod/http_server.py) and video_loop of Deplacement_Manuel.py.
FrameReaders == {"control", "video"}

\* Threads taking shared_lock: video_loop and a ManualStreamHandler.
SharedUsers == {"video", "http"}

Threads == FrameReaders \cup SharedUsers

CameraIdle ==
    UNCHANGED <<mcVars, obsVars, pc, current_mode, paused, quit_requested,
                fsmVars, nav_step_index, twinVars, detVars, mjpegVars, busVars,
                sysVars, extraVars>>

\* cv2.imdecode returns the next frame (numbered) or None (0).
Capture_decode(ok) ==
    /\ cam_pc = "decode"
    /\ frame_count < MaxFrames
    /\ frame_count' = frame_count + 1
    /\ decoded' = IF ok THEN frame_count' ELSE 0
    /\ cam_pc' = "test"
    /\ UNCHANGED <<frame_lock, current_frame, published, reader_pc, reader_ret,
                   shared_lock, shared_frame>>
    /\ CameraIdle

\* Mutant of Capture_test: the result of imdecode is published untested.
Capture_test_Untested ==
    /\ cam_pc = "test"
    /\ cam_pc' = "acquire"
    /\ UNCHANGED <<frame_lock, current_frame, decoded, frame_count, published,
                   reader_pc, reader_ret, shared_lock, shared_frame>>
    /\ CameraIdle

\* if frame is not None
Capture_test ==
    /\ cam_pc = "test"
    /\ cam_pc' = IF decoded # 0 THEN "acquire" ELSE "decode"
    /\ UNCHANGED <<frame_lock, current_frame, decoded, frame_count, published,
                   reader_pc, reader_ret, shared_lock, shared_frame>>
    /\ CameraIdle

\* with self.frame_lock: (entry)
Capture_acquire ==
    /\ cam_pc = "acquire"
    /\ frame_lock = "free"
    /\ frame_lock' = "capture"
    /\ cam_pc' = "write"
    /\ UNCHANGED <<current_frame, decoded, frame_count, published,
                   reader_pc, reader_ret, shared_lock, shared_frame>>
    /\ CameraIdle

\* self.current_frame = frame, and the lock is released.
Capture_write ==
    /\ cam_pc = "write"
    /\ current_frame' = IF decoded = 0 THEN NoFrame ELSE <<decoded>>
    /\ published' = Append(published, decoded)
    /\ frame_lock' = "free"
    /\ cam_pc' = "decode"
    /\ UNCHANGED <<decoded, frame_count, reader_pc, reader_ret,
                   shared_lock, shared_frame>>
    /\ CameraIdle

\* get_frame: with self.frame_lock: (entry)
GetFrame_acquire(t) ==
    /\ reader_pc[t] = "idle"
    /\ frame_lock = "free"
    /\ frame_lock' = t
    /\ reader_pc' = [reader_pc EXCEPT ![t] = "copy"]
    /\ UNCHANGED <<cam_pc, current_frame, decoded, frame_count, published,
                   reader_ret, shared_lock, shared_frame>>
    /\ CameraIdle

\* Where a thread goes after get_frame returned.
AfterGetFrame(t) == IF t = "video" THEN "publish" ELSE "use"

\* Mutant of GetFrame_copy: the caller goes on with the lock held.
GetFrame_copy_KeepsLock(t) ==
    /\ reader_pc[t] = "copy"
    /\ reader_ret' = [reader_ret EXCEPT ![t] = current_frame]
    /\ reader_pc' = [reader_pc EXCEPT ![t] = AfterGetFrame(t)]
    /\ UNCHANGED <<frame_lock, cam_pc, current_frame, decoded, frame_count,
                   published, shared_lock, shared_frame>>
    /\ CameraIdle

\* return self.current_frame.copy() if ... is not None else None, and
\* the lock is released.
GetFrame_copy(t) ==
    /\ reader_pc[t] = "copy"
    /\ reader_ret' = [reader_ret EXCEPT ![t] = current_frame]
    /\ frame_lock' = "free"
    /\ reader_pc' = [reader_pc EXCEPT ![t] = AfterGetFrame(t)]
    /\ UNCHANGED <<cam_pc, current_frame, decoded, frame_count, published,
                   shared_lock, shared_frame>>
    /\ CameraIdle

\* with shared_lock: (entry) -- video_loop after get_frame, a handler at
\* the top of its loop.
Shared_acquire(t) ==
    /\ reader_pc[t] = (IF t = "video" THEN "publish" ELSE "idle")
    /\ shared_lock = "free"
    /\ shared_lock' = t
    /\ reader_pc' = [reader_pc EXCEPT ![t] = "shared"]
    /\ UNCHANGED <<frame_lock, cam_pc, current_frame, decoded, frame_count,
                   published, reader_ret, shared_frame>>
    /\ CameraIdle

\* video_loop: shared_frame = display_frame (a black frame, 0, when
\* get_frame returned None); handler: frame = self.shared_frame.  The
\* lock is released.
Shared_access(t) ==
    /\ reader_pc[t] = "shared"
    /\ IF t = "video"
       THEN /\ shared_frame' = IF reader_ret[t] = NoFrame THEN <<0>> ELSE reader_ret[t]
            /\ UNCHANGED reader_ret
       ELSE /\ reader_ret' = [reader_ret EXCEPT ![t] = shared_frame]
            /\ UNCHANGED shared_frame
    /\ shared_lock' = "free"
    /\ reader_pc' = [reader_pc EXCEPT ![t] = "use"]
    /\ UNCHANGED <<frame_lock, cam_pc, current_frame, decoded, frame_count, published>>
    /\ CameraIdle

\* What a thread does with its frame: detection and motor call, encoding
\* and wfile.write, time.sleep.  Any of it may take for ever.
Blocking(t) ==
    /\ reader_pc[t] = "use"
    /\ reader_pc' = [reader_pc EXCEPT ![t] = "idle"]
    /\ UNCHANGED <<frame_lock, cam_pc, current_frame, decoded, frame_count,
                   published, reader_ret, shared_lock, shared_frame>>
    /\ CameraIdle

InitCamera ==
    /\ MotorController_init
    /\ ~connected
    /\ NoNavigator
    /\ NoSystem
    /\ NoExtra
    /\ NoTwins /\ NoDetector /\ NoMjpeg /\ NoBus
    /\ pc = "camera"
    /\ current_mode = "stop"
    /\ frame_lock = "free"
    /\ cam_pc = "decode"
    /\ decoded = 0
    /\ frame_count = 0
    /\ published = <<>>
    /\ reader_pc = [t \in Threads |-> "idle"]
    /\ reader_ret = [t \in Threads |-> NoFrame]
    /\ shared_lock = "free"
    /\ shared_frame = NoFrame

NextCamera ==
    \/ \E ok \in BOOLEAN : Capture_decode(ok)
    \/ Capture_test
    \/ Capture_acquire
    \/ Capture_write
    \/ \E t \in FrameReaders : GetFrame_acquire(t)
    \/ \E t \in FrameReaders : GetFrame_copy(t)
    \/ \E t \in SharedUsers : Shared_acquire(t)
    \/ \E t \in SharedUsers : Shared_access(t)
    \/ \E t \in Threads : Blocking(t)

SpecCamera == InitCamera /\ [][NextCamera]_vars

\* Scheduling: a thread that can run does run, and a thread waiting for a
\* lock that is released again and again gets it.  Nothing makes a
\* blocking step end, nor a reader call get_frame.
FairCamera ==
    /\ WF_vars(Capture_test)
    /\ SF_vars(Capture_acquire)
    /\ WF_vars(Capture_write)
    /\ \A t \in FrameReaders : WF_vars(GetFrame_copy(t))
    /\ \A t \in SharedUsers : WF_vars(Shared_access(t))

SpecCameraFair == SpecCamera /\ FairCamera

(* ------------------------------------------------------------------ *)
(* Specification SpecCameraFail: the capture thread may end             *)
(* ------------------------------------------------------------------ *)

\* _read_mjpeg leaves its loop: stdout.read returned no bytes (the
\* subprocess died or closed its pipe) or raised, and the finally clause
\* sets running = False.  current_frame is not assigned.
Capture_fails ==
    /\ cam_pc = "decode"
    /\ cam_pc' = "ended"
    /\ UNCHANGED <<frame_lock, current_frame, decoded, frame_count, published,
                   reader_pc, reader_ret, shared_lock, shared_frame>>
    /\ CameraIdle

NextCameraFail ==
    \/ NextCamera
    \/ Capture_fails

SpecCameraFail == InitCamera /\ [][NextCameraFail]_vars

(* ------------------------------------------------------------------ *)
(* Specification SpecMjpeg: the loop of FastCamera._read_mjpeg         *)
(* ------------------------------------------------------------------ *)

\* The sizes of the loop, scaled down: bytes asked of one read (4096),
\* length above which the buffer is cut (500000), bytes kept (100000).
ReadMax == 8
BufferLimit == 6
BufferKeep == 3

\* JPEG images the subprocess writes in a run.
MaxImages == 5

jpeg_start == <<"FF", "D8">>
jpeg_end == <<"FF", "D9">>

\* What an image holds between its two markers: never a marker (FF is
\* followed by 00 in entropy-coded data), but any of its bytes alone.
Bodies ==
    { <<>>, <<"D9", "D8">>, <<"FF", "00", "FF">> }

Image(body) == jpeg_start \o body \o jpeg_end

\* The bytes of a sequence of images, one after the other.
RECURSIVE Flatten(_)
Flatten(images) ==
    IF images = <<>> THEN <<>> ELSE Head(images) \o Flatten(Tail(images))

\* bytes.find(pat, from): the lowest index at or after from where pat
\* occurs, -1 if none (indices from 0).
Find(b, pat, from) ==
    LET hits == {i \in from..(Len(b) - 2) : b[i + 1] = pat[1] /\ b[i + 2] = pat[2]}
    IN  IF hits = {} THEN -1
        ELSE CHOOSE i \in hits : \A j \in hits : i <= j

\* Mutant of EndIdx: the end marker is searched from the start of the buffer.
EndIdx_FromZero(b, start_idx) == Find(b, jpeg_end, 0)

\* end_idx = buffer.find(jpeg_end, start_idx)
EndIdx(b, start_idx) == Find(b, jpeg_end, start_idx)

\* b[i:j] and b[i:] of Python, for 0 <= i.
Slice(b, i, j) == SubSeq(b, i + 1, j)
SliceFrom(b, i) == SubSeq(b, i + 1, Len(b))

MjpegIdle ==
    UNCHANGED <<mcVars, obsVars, pc, current_mode, navVars, twinVars, detVars,
                frame_lock, decoded, frame_count, published, reader_pc,
                reader_ret, shared_lock, shared_frame, busVars, sysVars, extraVars>>

\* Mutant of ReadMjpeg_iteration: the length is tested only in an
\* iteration that found no image.
ReadMjpeg_iteration_CutIfNoImage(n) ==
    /\ cam_pc = "reading"
    /\ n >= 1
    /\ read_pos + n <= Len(Flatten(stream))
    /\ n <= ReadMax
    /\ read_pos' = read_pos + n
    /\ LET chunk == SubSeq(Flatten(stream), read_pos + 1, read_pos + n)
           buf == buffer \o chunk
           start_idx == Find(buf, jpeg_start, 0)
           end_idx == IF start_idx # -1 THEN EndIdx(buf, start_idx) ELSE -1
           found == start_idx # -1 /\ end_idx # -1
           rest == IF found THEN SliceFrom(buf, end_idx + 2) ELSE buf
           base == IF found THEN buffer_base + end_idx + 2 ELSE buffer_base
           cut == ~found /\ Len(rest) > BufferLimit
       IN  /\ jpeg_data' =
                 IF found
                 THEN Append(jpeg_data,
                             [bytes |-> Slice(buf, start_idx, end_idx + 2),
                              first |-> buffer_base + start_idx])
                 ELSE jpeg_data
           /\ buffer' = IF cut THEN SliceFrom(rest, Len(rest) - BufferKeep) ELSE rest
           /\ buffer_base' = IF cut THEN base + Len(rest) - BufferKeep ELSE base
    /\ UNCHANGED <<stream, cam_pc>>
    /\ MjpegIdle

\* One iteration of the while loop, for a read that returns n bytes.
ReadMjpeg_iteration(n) ==
    /\ cam_pc = "reading"
    /\ n >= 1
    /\ read_pos + n <= Len(Flatten(stream))
    /\ n <= ReadMax
    /\ read_pos' = read_pos + n
    /\ LET chunk == SubSeq(Flatten(stream), read_pos + 1, read_pos + n)
           buf == buffer \o chunk
           start_idx == Find(buf, jpeg_start, 0)
           end_idx == IF start_idx # -1 THEN EndIdx(buf, start_idx) ELSE -1
           found == start_idx # -1 /\ end_idx # -1
           rest == IF found THEN SliceFrom(buf, end_idx + 2) ELSE buf
           base == IF found THEN buffer_base + end_idx + 2 ELSE buffer_base
           cut == Len(rest) > BufferLimit
       IN  /\ jpeg_data' =
                 IF found
                 THEN Append(jpeg_data,
                             [bytes |-> Slice(buf, start_idx, end_idx + 2),
                              first |-> buffer_base + start_idx])
                 ELSE jpeg_data
           /\ buffer' = IF cut THEN SliceFrom(rest, Len(rest) - BufferKeep) ELSE rest
           /\ buffer_base' = IF cut THEN base + Len(rest) - BufferKeep ELSE base
    /\ UNCHANGED <<stream, cam_pc>>
    /\ MjpegIdle

\* read returns b'': the loop ends.
ReadMjpeg_eof ==
    /\ cam_pc = "reading"
    /\ read_pos = Len(Flatten(stream))
    /\ cam_pc' = "ended"
    /\ UNCHANGED <<stream, read_pos, buffer, buffer_base, jpeg_data>>
    /\ MjpegIdle

InitMjpeg ==
    /\ MotorController_init
    /\ ~connected
    /\ NoNavigator
    /\ NoSystem
    /\ NoExtra
    /\ NoTwins /\ NoDetector /\ NoBus
    /\ pc = "mjpeg"
    /\ current_mode = "stop"
    /\ frame_lock = "free"
    /\ decoded = 0
    /\ frame_count = 0
    /\ published = <<>>
    /\ reader_pc = <<>>
    /\ reader_ret = <<>>
    /\ shared_lock = "free"
    /\ shared_frame = NoFrame
    /\ cam_pc = "reading"
    /\ \E bodies \in [1..MaxImages -> Bodies] :
          stream = [k \in 1..MaxImages |-> Image(bodies[k])]
    /\ read_pos = 0
    /\ buffer = <<>>
    /\ buffer_base = 0
    /\ jpeg_data = <<>>

NextMjpeg ==
    \/ \E n \in 1..ReadMax : ReadMjpeg_iteration(n)
    \/ ReadMjpeg_eof

SpecMjpeg == InitMjpeg /\ [][NextMjpeg]_vars

(* ------------------------------------------------------------------ *)
(* Specification SpecMjpegAny: the same loop on any stream             *)
(* ------------------------------------------------------------------ *)

\* What the pipe may carry: whole images, an image that never ends, and
\* bytes that belong to no image.
Pieces ==
    { Image(<<>>), Image(<<"FF", "00", "FF">>),
      <<"FF", "D8", "00", "00">>, <<"00", "D9", "00">> }

InitMjpegAny ==
    /\ MotorController_init
    /\ ~connected
    /\ NoNavigator
    /\ NoSystem
    /\ NoExtra
    /\ NoTwins /\ NoDetector /\ NoBus
    /\ pc = "mjpeg"
    /\ current_mode = "stop"
    /\ frame_lock = "free"
    /\ decoded = 0
    /\ frame_count = 0
    /\ published = <<>>
    /\ reader_pc = <<>>
    /\ reader_ret = <<>>
    /\ shared_lock = "free"
    /\ shared_frame = NoFrame
    /\ cam_pc = "reading"
    /\ stream \in [1..MaxImages -> Pieces]
    /\ read_pos = 0
    /\ buffer = <<>>
    /\ buffer_base = 0
    /\ jpeg_data = <<>>

SpecMjpegAny == InitMjpegAny /\ [][NextMjpeg]_vars

(* ------------------------------------------------------------------ *)
(* Specification SpecBus: the serial bus over the life of a controller *)
(* ------------------------------------------------------------------ *)

AllMotors == {DXL_IDS[i] : i \in 1..Len(DXL_IDS)}

\* The first k motors of DXL_IDS.
FirstMotors(k) == {DXL_IDS[i] : i \in 1..k}

BusIdle ==
    UNCHANGED <<decision, pc, current_mode, navVars, twinVars, detVars,
                camVars, mjpegVars, clears_connected, sysVars, extraVars>>

\* txPacket calls so far, counted up to 2.
Count(n) == tx_total' = IF tx_total + n > 2 THEN 2 ELSE tx_total + n

NoCall ==
    /\ UNCHANGED <<staged, bus, step_index, current_action, lastIdx, runGait, runLen>>
    /\ tx' = 0
    /\ Count(0)

ConnectFailed ==
    /\ mc_pc' = "failed"
    /\ connected' = FALSE

\* _connect: self.portHandler.openPort()
Connect_openPort(ok) ==
    /\ mc_pc = "new"
    /\ port' = IF ok THEN "open" ELSE port
    /\ IF ok THEN mc_pc' = "opened" /\ UNCHANGED connected ELSE ConnectFailed
    /\ NoCall
    /\ UNCHANGED <<baud_set, torque, err>>
    /\ BusIdle

\* _connect: self.portHandler.setBaudRate(BAUDRATE)
Connect_setBaudRate(ok) ==
    /\ mc_pc = "opened"
    /\ baud_set' = ok
    /\ IF ok THEN mc_pc' = "torque_on" /\ UNCHANGED connected ELSE ConnectFailed
    /\ NoCall
    /\ UNCHANGED <<port, torque, err>>
    /\ BusIdle

\* _connect: the torque loop; write1ByteTxRx raises after k motors, or
\* (k = 12) the loop completes.
Connect_torque_enable(k) ==
    /\ mc_pc = "torque_on"
    /\ torque' = FirstMotors(k)
    /\ IF k = Len(DXL_IDS)
       THEN mc_pc' = "init_write" /\ UNCHANGED connected
       ELSE ConnectFailed
    /\ NoCall
    /\ UNCHANGED <<port, baud_set, err>>
    /\ BusIdle

\* _connect: self.connected = True; self._write_positions(INIT_POSE)
Connect_init_write ==
    /\ mc_pc = "init_write"
    /\ connected' = TRUE
    /\ staged' = StagedParams(Keyframe(INIT_POSE))
    /\ bus' = staged'
    /\ tx' = 1
    /\ Count(1)
    /\ mc_pc' = "ready"
    /\ UNCHANGED <<step_index, current_action, lastIdx, runGait, runLen, err>>
    /\ UNCHANGED <<port, baud_set, torque>>
    /\ BusIdle

\* A method of the controller called by the control loop.
Bus_call(a) ==
    /\ mc_pc \in {"ready", "failed"}
    /\ Dispatch(a, step_index)
    /\ Count(tx')
    /\ UNCHANGED <<port, baud_set, torque, mc_pc>>
    /\ BusIdle

\* The caller shuts down: motors.stop(), then motors.disconnect().  The
\* second time (main of navigation_autonome.py after run; __del__) the
\* stop finds the action already stop.
Shutdown_stop ==
    /\ mc_pc \in {"ready", "failed", "disconnected"}
    /\ MotorController_stop(step_index)
    /\ Count(tx')
    /\ mc_pc' = "disconnect"
    /\ UNCHANGED <<port, baud_set, torque>>
    /\ BusIdle

\* disconnect: if self.connected: self._write_positions(INIT_POSE).
\* On a port already closed txPacket either raises (raises = TRUE,
\* disconnect is left) or returns an error nobody reads.
Disconnect_init_write(raises) ==
    /\ mc_pc = "disconnect"
    /\ IF connected
       THEN /\ staged' = StagedParams(Keyframe(INIT_POSE))
            /\ bus' = IF port = "open" THEN staged' ELSE bus
            /\ tx' = 1
            /\ Count(1)
            /\ IF port # "open" /\ raises
               THEN mc_pc' = "gone" /\ err' = "PortNotOpen"
               ELSE mc_pc' = "torque_off" /\ UNCHANGED err
       ELSE /\ UNCHANGED <<staged, bus, err>>
            /\ tx' = 0
            /\ Count(0)
            /\ mc_pc' = "gone"
    /\ UNCHANGED <<connected, step_index, current_action, lastIdx, runGait, runLen>>
    /\ UNCHANGED <<port, baud_set, torque>>
    /\ BusIdle

\* disconnect: the torque loop, write1ByteTxRx(..., ADDR_TORQUE_ENABLE, 0)
Disconnect_torque_disable ==
    /\ mc_pc = "torque_off"
    /\ torque' = {}
    /\ mc_pc' = "close"
    /\ NoCall
    /\ UNCHANGED <<connected, port, baud_set, err>>
    /\ BusIdle

\* disconnect: self.portHandler.closePort(); hexapod's MotorController
\* then sets self.connected = False.
Disconnect_closePort ==
    /\ mc_pc = "close"
    /\ port' = "closed"
    /\ connected' = IF clears_connected THEN FALSE ELSE connected
    /\ mc_pc' = IF port = "closed" THEN "gone" ELSE "disconnected"
    /\ NoCall
    /\ UNCHANGED <<baud_set, torque, err>>
    /\ BusIdle

\* A controller of hexapod/motor_controller.py (clears_connected) or of
\* navigation_autonome.py, about to run _connect.
InitBus ==
    /\ MotorController_init
    /\ ~connected
    /\ NoNavigator
    /\ NoSystem
    /\ NoExtra
    /\ NoTwins /\ NoDetector /\ NoCameraThreads /\ NoMjpeg
    /\ pc = "bus"
    /\ current_mode = "stop"
    /\ port = "unopened"
    /\ baud_set = FALSE
    /\ torque = {}
    /\ mc_pc = "new"
    /\ clears_connected \in BOOLEAN
    /\ tx_total = 0

NextBus ==
    \/ \E ok \in BOOLEAN : Connect_openPort(ok)
    \/ \E ok \in BOOLEAN : Connect_setBaudRate(ok)
    \/ \E k \in 0..Len(DXL_IDS) : Connect_torque_enable(k)
    \/ Connect_init_write
    \/ \E a \in Actions : Bus_call(a)
    \/ Shutdown_stop
    \/ \E raises \in BOOLEAN : Disconnect_init_write(raises)
    \/ Disconnect_torque_disable
    \/ Disconnect_closePort

SpecBus == InitBus /\ [][NextBus]_vars

(* ------------------------------------------------------------------ *)
(* Specification SpecMain: main of Deplacement_Manuel.py and of        *)
(* navigation_autonome.py, from the first constructor to the exit      *)
(* ------------------------------------------------------------------ *)

\* How _connect ends: openPort fails, setBaudRate fails, write1ByteTxRx
\* raises after k motors, or everything succeeds.  None of them raises
\* out of MotorController(): _connect returns and __init__ drops the
\* returned value.
ConnectOutcomes ==
    {<<"no_port", 0>>, <<"no_baud", 0>>, <<"ok", Len(DXL_IDS)>>}
        \cup {<<"torque_raises", k>> : k \in 0..(Len(DXL_IDS) - 1)}

\* MotorController(): the fields, then _connect.
Construct_motors(outcome) ==
    /\ step_index' = 0
    /\ current_action' = "stop"
    /\ port' = IF outcome[1] = "no_port" THEN port ELSE "open"
    /\ baud_set' = (outcome[1] \in {"torque_raises", "ok"})
    /\ torque' = FirstMotors(outcome[2])
    /\ connected' = (outcome[1] = "ok")
    /\ staged' = IF connected' THEN StagedParams(Keyframe(INIT_POSE)) ELSE staged
    /\ bus' = IF connected' THEN staged' ELSE bus
    /\ tx' = IF connected' THEN 1 ELSE 0
    /\ UNCHANGED <<err, lastIdx, runGait, runLen>>

\* motors.stop(): the initial pose is written when the action was not
\* stop and the controller is connected.  On a port that is not open
\* nothing reaches the bus.
Stop_effect(st) ==
    [st EXCEPT !.current_action = "stop",
               !.step_index = IF st.current_action # "stop" THEN 0 ELSE @,
               !.bus = IF st.current_action # "stop" /\ st.connected /\ st.port = "open"
                       THEN InitPacket ELSE @]

\* motors.disconnect(): nothing unless self.connected; then the initial
\* pose, torque off on every motor, closePort.
Disconnect_effect(st, clears) ==
    IF st.connected
    THEN [st EXCEPT !.bus = IF st.port = "open" THEN InitPacket ELSE @,
                    !.torque = {},
                    !.port = "closed",
                    !.connected = IF clears THEN FALSE ELSE @]
    ELSE st

\* camera.stop(): terminate the subprocess, remove the directory.
Camera_stop_effect(st) ==
    [st EXCEPT !.process = IF @ = "running" THEN "terminated" ELSE @,
               !.temp_dir = IF @ = "exists" THEN "removed" ELSE @]

\* keyboard.restore()
Restore_effect(st) == [st EXCEPT !.terminal = "cooked"]

\* http_server.shutdown()
Shutdown_effect(st) ==
    [st EXCEPT !.http_server = IF @ = "serving" THEN "shutdown" ELSE @]

\* What the cleanup calls read and change.
Held ==
    [current_action |-> current_action, step_index |-> step_index,
     connected |-> connected, bus |-> bus, port |-> port, torque |-> torque,
     process |-> process, temp_dir |-> temp_dir, terminal |-> terminal,
     http_server |-> http_server, err |-> err]

Becomes(st) ==
    /\ current_action' = st.current_action
    /\ step_index' = st.step_index
    /\ connected' = st.connected
    /\ bus' = st.bus
    /\ port' = st.port
    /\ torque' = st.torque
    /\ process' = st.process
    /\ temp_dir' = st.temp_dir
    /\ terminal' = st.terminal
    /\ http_server' = st.http_server
    /\ staged' = IF st.bus # bus THEN st.bus ELSE staged
    /\ err' = st.err
    /\ tx' = 0
    /\ UNCHANGED <<lastIdx, runGait, runLen, baud_set>>

\* Everything main does not touch.
MainIdle ==
    UNCHANGED <<decision, twinVars, detVars, camVars, mjpegVars, tickVars, serveVars, extraVars,
                mc_pc, clears_connected, tx_total, program, nav_step_index,
                current_frame, quit_requested>>

\* Deplacement_Manuel.main: motors = MotorController().  The except
\* branch is reached by no outcome of _connect.
Main_motors(outcome) ==
    /\ program = "teleop"
    /\ main_pc = "motors"
    /\ Construct_motors(outcome)
    /\ main_pc' = "keyboard"
    /\ UNCHANGED <<pc, current_mode, paused, fsmVars, terminal, process, temp_dir,
                   http_server, exit_path>>
    /\ MainIdle

\* keyboard = KeyboardHandler(); on an exception motors.disconnect().
Main_keyboard(ok) ==
    /\ program = "teleop"
    /\ main_pc = "keyboard"
    /\ IF ok
       THEN /\ Becomes([Held EXCEPT !.terminal = "cbreak"])
            /\ main_pc' = "camera"
            /\ UNCHANGED exit_path
       ELSE /\ Becomes(Disconnect_effect(Held, clears_connected))
            /\ main_pc' = "exit"
            /\ exit_path' = "keyboard"
    /\ UNCHANGED <<pc, current_mode, paused, fsmVars>>
    /\ MainIdle

\* FastCamera(): libcamera-vid is spawned, or Popen raises and the
\* fallback makes its directory, or the fallback raises as well.
CameraOutcomes == {"libcamera", "fallback", "raises"}

Construct_camera(st, outcome) ==
    [st EXCEPT !.process = IF outcome = "libcamera" THEN "running" ELSE @,
               !.temp_dir = IF outcome = "fallback" THEN "exists" ELSE @]

\* camera = FastCamera(); on an exception motors.disconnect() and
\* keyboard.restore().
Main_camera(outcome) ==
    /\ program = "teleop"
    /\ main_pc = "camera"
    /\ IF outcome # "raises"
       THEN /\ Becomes(Construct_camera(Held, outcome))
            /\ main_pc' = "http"
            /\ UNCHANGED exit_path
       ELSE /\ Becomes(Restore_effect(Disconnect_effect(Held, clears_connected)))
            /\ main_pc' = "exit"
            /\ exit_path' = "camera"
    /\ UNCHANGED <<pc, current_mode, paused, fsmVars>>
    /\ MainIdle

\* http_server = start_http_server(); when it is None motors.disconnect()
\* and keyboard.restore().  Then the video thread, and current_mode = 'stop'.
Main_http(ok) ==
    /\ program = "teleop"
    /\ main_pc = "http"
    /\ IF ok
       THEN /\ Becomes([Held EXCEPT !.http_server = "serving"])
            /\ main_pc' = "loop"
            /\ pc' = "loop"
            /\ current_mode' = "stop"
            /\ UNCHANGED exit_path
       ELSE /\ Becomes(Restore_effect(Disconnect_effect(Held, clears_connected)))
            /\ main_pc' = "exit"
            /\ exit_path' = "http"
            /\ UNCHANGED <<pc, current_mode>>
    /\ UNCHANGED <<paused, fsmVars>>
    /\ MainIdle

\* The ways out of the while loop: key x, KeyboardInterrupt, an exception
\* of the keyboard read, an exception of txPacket.
LoopExits == {"quit", "interrupt", "exception", "bus_exception"}

\* The finally block of Deplacement_Manuel.main: motors.stop(),
\* motors.disconnect(), camera.stop(), http_server.shutdown(),
\* keyboard.restore().  When the bus is what raised in the loop, the
\* write of motors.stop() or of motors.disconnect() may raise again
\* (again = TRUE) and the rest of the block is not run.
Main_finally(path, again) ==
    /\ program = "teleop"
    /\ main_pc = "loop"
    /\ path = "bus_exception" => connected /\ current_mode # "stop"
    /\ again => path = "bus_exception"
    /\ IF again
       THEN Becomes([Held EXCEPT !.current_action = "stop", !.step_index = 0,
                                 !.err = "SerialException"])
       ELSE Becomes(Restore_effect(Shutdown_effect(Camera_stop_effect(
                        Disconnect_effect(Stop_effect(Held), clears_connected)))))
    /\ main_pc' = "exit"
    /\ pc' = "done"
    /\ exit_path' = path
    /\ UNCHANGED <<current_mode, paused, fsmVars>>
    /\ MainIdle

\* main returns and the interpreter exits.  The objects main held are
\* finalized: KeyboardHandler.__del__ restores the terminal and hexapod's
\* MotorController.__del__ disconnects when still connected (it raises at
\* once on a bus that raised before; the class of navigation_autonome.py
\* has no __del__).  FastCamera.__del__ (stop) is run or not: the camera
\* is kept alive by its capture thread, and Python does not promise to
\* finalize what is alive at exit.
Main_exit(camera_del) ==
    /\ main_pc = "exit"
    /\ main_pc' = "ended"
    /\ LET a == IF camera_del THEN Camera_stop_effect(Held) ELSE Held
           b == Restore_effect(a)
           c == IF program = "teleop" /\ err = "none"
                THEN Disconnect_effect(b, clears_connected) ELSE b
       IN  Becomes(c)
    /\ UNCHANGED <<pc, current_mode, paused, fsmVars, exit_path>>
    /\ MainIdle

\* AutonomousNavigator.__init__: the flags, then KeyboardHandler().  An
\* exception leaves main with navigator = None: its finally stops nothing.
Navigator_init_keyboard(ok) ==
    /\ program = "nav"
    /\ main_pc = "keyboard"
    /\ paused' = FALSE
    /\ IF ok
       THEN /\ Becomes([Held EXCEPT !.terminal = "cbreak"])
            /\ main_pc' = "camera"
            /\ UNCHANGED exit_path
       ELSE /\ Becomes(Held)
            /\ main_pc' = "exit"
            /\ exit_path' = "keyboard"
    /\ UNCHANGED <<pc, current_mode, fsmVars>>
    /\ MainIdle

\* AutonomousNavigator.__init__: FastCamera(width=640, height=240, fps=10)
Navigator_init_camera(outcome) ==
    /\ program = "nav"
    /\ main_pc = "camera"
    /\ IF outcome # "raises"
       THEN /\ Becomes(Construct_camera(Held, outcome))
            /\ main_pc' = "motors"
            /\ UNCHANGED exit_path
       ELSE /\ Becomes(Held)
            /\ main_pc' = "exit"
            /\ exit_path' = "camera"
    /\ UNCHANGED <<pc, current_mode, paused, fsmVars>>
    /\ MainIdle

\* Mutant of Navigator_init_state: the navigator starts paused.
Navigator_init_state_Paused(outcome) ==
    /\ program = "nav"
    /\ main_pc = "motors"
    /\ Construct_motors(outcome)
    /\ current_state' = "INIT"
    /\ escape_direction' = "None"
    /\ escape_steps' = 0
    /\ paused' = TRUE
    /\ main_pc' = "run"
    /\ UNCHANGED <<pc, current_mode, terminal, process, temp_dir,
                   http_server, exit_path>>
    /\ MainIdle

\* AutonomousNavigator.__init__: MotorController(), then the state fields;
\* main then calls run().
Navigator_init_state(outcome) ==
    /\ program = "nav"
    /\ main_pc = "motors"
    /\ Construct_motors(outcome)
    /\ current_state' = "INIT"
    /\ escape_direction' = "None"
    /\ escape_steps' = 0
    /\ paused' = paused
    /\ main_pc' = "run"
    /\ UNCHANGED <<pc, current_mode, terminal, process, temp_dir,
                   http_server, exit_path>>
    /\ MainIdle

\* The motor calls run can make, with the cursors they can leave.
NavLastCalls ==
    {<<"stop", 0>>}
        \cup {<<"forward", i>> : i \in 0..(Len(seq_forward) - 1)}
        \cup {<<"slide_left", i>> : i \in 0..(Len(seq_slide_left) - 1)}
        \cup {<<"slide_right", i>> : i \in 0..(Len(seq_slide_right) - 1)}

\* AutonomousNavigator.stop: motors.stop(), motors.disconnect(),
\* camera.stop(), keyboard.restore().  On a bus that raised, the first
\* write raises again and the rest is not run.
Navigator_stop_effect(st) ==
    IF st.err # "none"
    THEN [st EXCEPT !.current_action = "stop",
                    !.step_index = IF st.current_action # "stop" THEN 0 ELSE @]
    ELSE Restore_effect(Camera_stop_effect(Disconnect_effect(Stop_effect(st), FALSE)))

\* run(): the loop, as far as the cleanup reads it (the action and the
\* cursor of the last motor call), left by path; then the finally block
\* of run, self.stop().
Navigator_run(path, last, again) ==
    /\ program = "nav"
    /\ main_pc = "run"
    /\ path = "bus_exception" => connected /\ last[1] # "stop"
    /\ again => path = "bus_exception"
    /\ Becomes(Navigator_stop_effect(
                   [Held EXCEPT !.current_action = last[1], !.step_index = last[2],
                                !.err = IF again THEN "SerialException" ELSE @]))
    /\ main_pc' = "finally"
    /\ exit_path' = path
    /\ UNCHANGED <<pc, current_mode, paused, fsmVars>>
    /\ MainIdle

\* The finally block of main: navigator.stop(), a second time.
Navigator_main_finally ==
    /\ program = "nav"
    /\ main_pc = "finally"
    /\ Becomes(Navigator_stop_effect(Held))
    /\ main_pc' = "exit"
    /\ UNCHANGED <<pc, current_mode, paused, fsmVars, exit_path>>
    /\ MainIdle

\* A program is started: nothing is constructed, nothing is acquired.
\* Fields of objects not constructed yet hold -1 or "unset"; paused holds
\* either value for the navigator.
InitMain ==
    /\ program \in {"teleop", "nav"}
    /\ main_pc = IF program = "teleop" THEN "motors" ELSE "keyboard"
    /\ terminal = "cooked"
    /\ process = "none"
    /\ temp_dir = "none"
    /\ http_server = "none"
    /\ exit_path = "none"
    /\ connected = FALSE
    /\ staged = <<>>
    /\ bus = <<>>
    /\ step_index = -1
    /\ current_action = "unset"
    /\ err = "none"
    /\ lastIdx = -1
    /\ tx = 0
    /\ runGait = "none"
    /\ runLen = -1
    /\ decision = NoDecision
    /\ pc = "start"
    /\ current_mode = "unset"
    /\ paused \in (IF program = "nav" THEN BOOLEAN ELSE {FALSE})
    /\ quit_requested = FALSE
    /\ current_state = "unset"
    /\ escape_direction = "unset"
    /\ escape_steps = -1
    /\ nav_step_index = -1
    /\ current_frame = NoFrame
    /\ NoTwins /\ NoDetector /\ NoCameraThreads /\ NoMjpeg /\ NoTick /\ NoServe
    /\ NoExtra
    /\ port = "unopened"
    /\ baud_set = FALSE
    /\ torque = {}
    /\ mc_pc = "off"
    /\ clears_connected = (program = "teleop")
    /\ tx_total = 0

NextMain ==
    \/ \E outcome \in ConnectOutcomes : Main_motors(outcome)
    \/ \E ok \in BOOLEAN : Main_keyboard(ok)
    \/ \E outcome \in CameraOutcomes : Main_camera(outcome)
    \/ \E ok \in BOOLEAN : Main_http(ok)
    \/ \E key \in TeleopKeys : Teleop_tick(key)
    \/ \E path \in LoopExits, again \in BOOLEAN : Main_finally(path, again)
    \/ \E ok \in BOOLEAN : Navigator_init_keyboard(ok)
    \/ \E outcome \in CameraOutcomes : Navigator_init_camera(outcome)
    \/ \E outcome \in ConnectOutcomes : Navigator_init_state(outcome)
    \/ \E path \in LoopExits, last \in NavLastCalls, again \in BOOLEAN :
           Navigator_run(path, last, again)
    \/ Navigator_main_finally
    \/ \E camera_del \in BOOLEAN : Main_exit(camera_del)

SpecMain == InitMain /\ [][NextMain]_vars

(* ------------------------------------------------------------------ *)
(* Specification SpecTick: the teleoperation loop with every call of   *)
(* _write_positions followed step by step                              *)
(* ------------------------------------------------------------------ *)

\* The keyframe a call of _write_positions was given: the initial pose for
\* <<"stop", 0>>, else row idx (0-based) of the gait's table.
AnglesOf(call) ==
    IF call[1] = "stop" THEN Keyframe(INIT_POSE) ELSE GaitOf(call[1])[call[2] + 1]

\* Mutant of clearParam: the staged entries are kept.
clearParam_Keeps(data) == data

\* GroupSyncWrite.clearParam()
clearParam(data) == <<>>

\* GroupSyncWrite.addParam(motor_id, param): an id already staged is
\* refused, the entry staged for it stays.
addParam(data, motor_id, param) ==
    IF \E j \in 1..Len(data) : data[j].id = motor_id
    THEN data
    ELSE Append(data, [id |-> motor_id, param |-> param])

\* How txPacket can end: the packet is sent; an error code is returned
\* (which _write_positions drops); the serial write raises.
TxOutcomes == {"ok", "failed", "raised"}

TickIdle ==
    UNCHANGED <<obsVars, navVars, twinVars, detVars, camVars, mjpegVars,
                mainVars, serveVars, extraVars, baud_set, mc_pc, clears_connected, tx_total>>

\* _write_positions is entered with the keyframe of call, to return to ret:
\* nothing when not connected (the control goes to skip), else clearParam.
BeginWrite(call, ret, skip) ==
    IF connected
    THEN /\ staged' = clearParam(staged)
         /\ w_pc' = "add"
         /\ w_i' = 0
         /\ w_call' = call
         /\ w_ret' = ret
         /\ w_prev' = w_fate
         /\ w_last' = w_call[1]
         /\ w_fate' = "running"
         /\ pc' = "write"
    ELSE /\ UNCHANGED <<staged, tickVars>>
         /\ pc' = skip

\* Mutant of Tick_call: the motor call is made for the mode of the
\* iteration before, and the key takes effect afterwards.
Tick_call_DispatchFirst(key) ==
    /\ pc = "loop"
    /\ LET mapped == key \in MappedKeys
           new_mode == IF mapped THEN key_actions(key) ELSE current_mode
           si == step_index
           idx == IF current_mode \in {"forward", "backward"}
                  THEN si ELSE ResetOnChange(current_mode, si)
       IN  /\ current_mode' = new_mode
           /\ IF current_mode = "stop"
              THEN IF current_action # "stop"
                   THEN /\ current_action' = "stop"
                        /\ step_index' = 0
                        /\ BeginWrite(<<"stop", 0>>, "loop", "loop")
                   ELSE /\ step_index' = si
                        /\ UNCHANGED <<current_action, staged, tickVars, pc>>
              ELSE /\ current_action' = current_mode
                   /\ step_index' = IF connected THEN idx
                                    ELSE Advance(idx, Len(GaitOf(current_mode)))
                   /\ BeginWrite(<<current_mode, idx>>, "advance", "loop")
    /\ UNCHANGED <<connected, bus, err, port, torque>>
    /\ TickIdle

\* One iteration of the loop of main up to the call of _write_positions:
\* the key, the mode, motors.step_index = 0 on a change, then stop() or
\* the gait step method.  When _write_positions returns at once (not
\* connected) the gait step advances the cursor.
Tick_call(key) ==
    /\ pc = "loop"
    /\ LET mapped == key \in MappedKeys
           new_mode == IF mapped THEN key_actions(key) ELSE current_mode
           si == IF mapped /\ current_mode # new_mode THEN 0 ELSE step_index
           idx == IF new_mode \in {"forward", "backward"}
                  THEN si ELSE ResetOnChange(new_mode, si)
       IN  /\ current_mode' = new_mode
           /\ IF new_mode = "stop"
              THEN IF current_action # "stop"
                   THEN /\ current_action' = "stop"
                        /\ step_index' = 0
                        /\ BeginWrite(<<"stop", 0>>, "loop", "loop")
                   ELSE /\ step_index' = si
                        /\ UNCHANGED <<current_action, staged, tickVars, pc>>
              ELSE /\ current_action' = new_mode
                   /\ step_index' = IF connected THEN idx
                                    ELSE Advance(idx, Len(GaitOf(new_mode)))
                   /\ BeginWrite(<<new_mode, idx>>, "advance", "loop")
    /\ UNCHANGED <<connected, bus, err, port, torque>>
    /\ TickIdle

\* One turn of the loop over DXL_IDS: deg2dxl, the clamp, the four bytes,
\* addParam.
W_addParam ==
    /\ pc = "write"
    /\ w_pc = "add"
    /\ LET i == w_i + 1
       IN  staged' = addParam(staged, DXL_IDS[i],
                              ParamBytes(Clamp(deg2dxl(AnglesOf(w_call)[i]))))
    /\ w_i' = w_i + 1
    /\ w_pc' = IF w_i' = Len(DXL_IDS) THEN "tx" ELSE "add"
    /\ UNCHANGED <<w_call, w_ret, w_fate, w_prev, w_last>>
    /\ UNCHANGED <<connected, bus, step_index, current_action, err, pc,
                   current_mode, port, torque>>
    /\ TickIdle

\* Where _write_positions returns to: the gait step method advances the
\* cursor and the loop goes on; stop() returns to the loop; the stop() of
\* the finally block is followed by disconnect(); the write of
\* disconnect() by the torque loop, closePort and connected = False.
Return(ret) ==
    /\ step_index' = IF ret = "advance"
                     THEN Advance(step_index, Len(GaitOf(w_call[1])))
                     ELSE step_index
    /\ pc' = CASE ret \in {"advance", "loop"} -> "loop"
               [] ret = "disconnect" -> "finally_disconnect"
               [] ret = "close" -> "done"
    /\ connected' = IF ret = "close" THEN FALSE ELSE connected
    /\ torque' = IF ret = "close" THEN {} ELSE torque
    /\ port' = IF ret = "close" THEN "closed" ELSE port
    /\ err' = err

\* self.groupSyncWrite.txPacket().  A raised exception leaves
\* _write_positions and its caller: from the loop it reaches the finally
\* block, inside the finally block it ends main.
W_txPacket(outcome) ==
    /\ pc = "write"
    /\ w_pc = "tx"
    /\ bus' = IF outcome = "ok" THEN staged ELSE bus
    /\ w_fate' = outcome
    /\ w_pc' = "none"
    /\ IF outcome = "raised"
       THEN /\ err' = "SerialException"
            /\ pc' = IF w_ret \in {"advance", "loop"} THEN "finally_stop" ELSE "done"
            /\ UNCHANGED <<step_index, connected, torque, port>>
       ELSE Return(w_ret)
    /\ UNCHANGED <<staged, w_i, w_call, w_ret, w_prev, w_last>>
    /\ UNCHANGED <<current_action, current_mode>>
    /\ TickIdle

\* KeyboardInterrupt in the loop, between two iterations or anywhere
\* inside a call of _write_positions.
Tick_interrupt ==
    /\ \/ pc = "loop"
       \/ pc = "write" /\ w_ret \in {"advance", "loop"}
    /\ pc' = "finally_stop"
    /\ w_pc' = "none"
    /\ w_fate' = IF pc = "write" THEN "interrupted" ELSE w_fate
    /\ UNCHANGED <<w_i, w_call, w_ret, w_prev, w_last>>
    /\ UNCHANGED <<mcVars, current_mode, port, torque>>
    /\ TickIdle

\* Key x: break.
Tick_quit ==
    /\ pc = "loop"
    /\ pc' = "finally_stop"
    /\ UNCHANGED <<mcVars, tickVars, current_mode, port, torque>>
    /\ TickIdle

\* finally: motors.stop()
Finally_stop ==
    /\ pc = "finally_stop"
    /\ IF current_action # "stop"
       THEN /\ current_action' = "stop"
            /\ step_index' = 0
            /\ BeginWrite(<<"stop", 0>>, "disconnect", "finally_disconnect")
       ELSE /\ pc' = "finally_disconnect"
            /\ UNCHANGED <<current_action, step_index, staged, tickVars>>
    /\ UNCHANGED <<connected, bus, err, current_mode, port, torque>>
    /\ TickIdle

\* finally: motors.disconnect(), up to its call of _write_positions.
Finally_disconnect ==
    /\ pc = "finally_disconnect"
    /\ BeginWrite(<<"stop", 0>>, "close", "done")
    /\ UNCHANGED <<connected, bus, step_index, current_action, err,
                   current_mode, port, torque>>
    /\ TickIdle

\* The loop is entered: the controller is connected (the initial pose was
\* its first call of _write_positions) or not.
InitTick ==
    /\ MotorController_init
    /\ NoNavigator
    /\ NoTwins /\ NoDetector /\ NoCameraThreads /\ NoMjpeg /\ NoMain /\ NoServe
    /\ NoExtra
    /\ pc = "loop"
    /\ current_mode = "stop"
    /\ port = IF connected THEN "open" ELSE "unopened"
    /\ baud_set = connected
    /\ torque = IF connected THEN AllMotors ELSE {}
    /\ mc_pc = "off"
    /\ clears_connected = TRUE
    /\ tx_total = 0
    /\ w_pc = "none"
    /\ w_i = IF connected THEN Len(DXL_IDS) ELSE 0
    /\ w_call = <<"stop", 0>>
    /\ w_ret = "none"
    /\ w_fate = IF connected THEN "ok" ELSE "none"
    /\ w_prev = "none"
    /\ w_last = "none"

NextTick ==
    \/ \E key \in TeleopKeys : Tick_call(key)
    \/ W_addParam
    \/ \E outcome \in TxOutcomes : W_txPacket(outcome)
    \/ Tick_interrupt
    \/ Tick_quit
    \/ Finally_stop
    \/ Finally_disconnect

SpecTick == InitTick /\ [][NextTick]_vars

(* ------------------------------------------------------------------ *)
(* Specification SpecServe: the threads of a running program           *)
(* ------------------------------------------------------------------ *)

\* /stream clients being served, each by a thread of ThreadedHTTPServer.
Handlers == {"h1", "h2"}

\* Threads with a position in reader_pc; the capture thread has cam_pc.
ServeThreads == {"control", "video"} \cup Handlers

\* What the teleop loop reads in this specification: key z or nothing
\* (the loop stops the motors in its finally block).
ServeKeys == {"z", "None"}

\* Motor methods run calls once it has a frame.
NavCalls == {"forward", "slide_left", "stop"}

ServeIdle ==
    UNCHANGED <<navVars, twinVars, detVars, mjpegVars, busVars, mainVars, tickVars, extraVars>>

\* No step of the MotorController, and the threads around the camera
\* where they were.
OnlyControl ==
    /\ UNCHANGED <<camVars, sent_to, decision>>
    /\ ServeIdle

\* Teleop: keyboard.get_key(), the change of mode with its entry in
\* shared_stats (written under shared_lock, which is released at once),
\* and the entry into the motor method of the mode.
Ctl_key(key) ==
    /\ program = "teleop"
    /\ pc = "loop"
    /\ IF key \in MappedKeys
       THEN /\ shared_lock = "free"
            /\ current_mode' = key_actions(key)
            /\ step_index' = IF current_mode # current_mode' THEN 0 ELSE step_index
            /\ shared_stats' = current_mode'
       ELSE UNCHANGED <<current_mode, step_index, shared_stats>>
    /\ pc' = "motor"
    /\ in_motor' = in_motor \cup {"control"}
    /\ UNCHANGED <<connected, staged, bus, current_action, err>>
    /\ UNCHANGED <<lastIdx, runGait, runLen>>
    /\ tx' = 0
    /\ OnlyControl

\* Autonomy: run has a frame, decides, and enters the motor method.
Ctl_nav_enter(call) ==
    /\ program = "nav"
    /\ pc = "loop"
    /\ reader_pc["control"] = "use"
    /\ reader_ret["control"] # NoFrame
    /\ reader_pc' = [reader_pc EXCEPT !["control"] = "idle"]
    /\ current_mode' = call
    /\ pc' = "motor"
    /\ in_motor' = in_motor \cup {"control"}
    /\ MotorIdle
    /\ UNCHANGED <<frame_lock, cam_pc, decoded, frame_count, published,
                   reader_ret, shared_lock, shared_frame, current_frame>>
    /\ UNCHANGED <<shared_stats, sent_to, decision>>
    /\ UNCHANGED <<paused, quit_requested, fsmVars, nav_step_index>>
    /\ UNCHANGED <<twinVars, detVars, mjpegVars, busVars, mainVars, tickVars, extraVars>>

\* forward, slide_left or stop of the MotorController, without the
\* bookkeeping of runs of steps.
Serve_call(mode) ==
    /\ current_action' = mode
    /\ LET idx == IF mode = "slide_left" THEN ResetOnChange(mode, step_index)
                  ELSE step_index
       IN  IF mode = "stop"
           THEN /\ step_index' = IF current_action # "stop" THEN 0 ELSE step_index
                /\ IF current_action # "stop"
                   THEN write_positions(Keyframe(INIT_POSE))
                   ELSE NoWrite
           ELSE /\ step_index' = Advance(idx, Len(GaitOf(mode)))
                /\ write_positions(AnglesOf(<<mode, idx>>))
    /\ UNCHANGED <<connected, err, lastIdx, runGait, runLen>>

\* The motor method runs and returns.
Ctl_exit ==
    /\ pc = "motor"
    /\ pc' = "loop"
    /\ Serve_call(current_mode)
    /\ in_motor' = in_motor \ {"control"}
    /\ UNCHANGED <<current_mode, shared_stats>>
    /\ OnlyControl

\* Key x, q or KeyboardInterrupt: on to the finally block.
Ctl_break ==
    /\ pc = "loop"
    /\ reader_pc["control"] = "idle"
    /\ pc' = "finally"
    /\ MotorIdle
    /\ UNCHANGED <<current_mode, in_motor, shared_stats>>
    /\ OnlyControl

\* finally: motors.stop() and motors.disconnect() are entered.
Ctl_finally_enter ==
    /\ pc = "finally"
    /\ pc' = "finally_motor"
    /\ in_motor' = in_motor \cup {"control"}
    /\ MotorIdle
    /\ UNCHANGED <<current_mode, shared_stats>>
    /\ OnlyControl

\* They run and return; the main thread is done.
Ctl_finally_exit ==
    /\ pc = "finally_motor"
    /\ pc' = "done"
    /\ stop_then_disconnect(program = "teleop")
    /\ in_motor' = in_motor \ {"control"}
    /\ UNCHANGED <<current_mode, shared_stats>>
    /\ OnlyControl

\* A step of the capture thread, of video_loop or of a handler up to its
\* frame: the steps of SpecCamera, while the process lives.
Serve_camera(t) ==
    /\ pc # "done"
    /\ UNCHANGED <<in_motor, shared_stats, sent_to>>
    /\ \/ /\ t = "capture"
          /\ \/ \E ok \in BOOLEAN : Capture_decode(ok)
             \/ Capture_test
             \/ Capture_acquire
             \/ Capture_write
       \/ /\ t = "control"
          /\ program = "nav"
          /\ pc = "loop"
          /\ \/ GetFrame_acquire(t)
             \/ GetFrame_copy(t)
             \/ reader_ret[t] = NoFrame /\ Blocking(t)
       \/ /\ t = "video"
          /\ program = "teleop"
          /\ \/ GetFrame_acquire(t)
             \/ GetFrame_copy(t)
             \/ Shared_acquire(t)
             \/ Shared_access(t)
             \/ Blocking(t)
       \/ /\ t \in Handlers
          /\ program = "teleop"
          /\ \/ Shared_acquire(t)
             \/ Shared_access(t)

HandlerIdle ==
    /\ MotorIdle
    /\ UNCHANGED <<frame_lock, cam_pc, decoded, frame_count, published,
                   shared_lock, shared_frame, current_frame>>
    /\ UNCHANGED <<pc, current_mode, shared_stats, decision>>
    /\ UNCHANGED <<paused, quit_requested, fsmVars, nav_step_index>>
    /\ UNCHANGED <<twinVars, detVars, mjpegVars, busVars, mainVars, tickVars, extraVars>>

\* Mutant of Handler_send: a handler whose client left stops the robot.
Handler_send_StopsMotors(t, ok) ==
    /\ program = "teleop"
    /\ pc # "done"
    /\ reader_pc[t] = "use"
    /\ reader_ret' = [reader_ret EXCEPT ![t] = NoFrame]
    /\ HandlerIdle
    /\ IF reader_ret[t] = NoFrame
       THEN /\ ok
            /\ reader_pc' = [reader_pc EXCEPT ![t] = "idle"]
            /\ UNCHANGED <<sent_to, in_motor>>
       ELSE IF ok
       THEN /\ sent_to' = t
            /\ reader_pc' = [reader_pc EXCEPT ![t] = "idle"]
            /\ UNCHANGED in_motor
       ELSE /\ reader_pc' = [reader_pc EXCEPT ![t] = "closed"]
            /\ in_motor' = in_motor \cup {t}
            /\ sent_to' = "none"

\* Mutant of Handler_send: the failed write ends the capture thread too.
Handler_send_EndsCapture(t, ok) ==
    /\ program = "teleop"
    /\ pc # "done"
    /\ reader_pc[t] = "use"
    /\ reader_ret' = [reader_ret EXCEPT ![t] = NoFrame]
    /\ MotorIdle
    /\ UNCHANGED <<frame_lock, decoded, frame_count, published,
                   shared_lock, shared_frame, current_frame>>
    /\ UNCHANGED <<pc, current_mode, shared_stats, decision, in_motor>>
    /\ UNCHANGED <<paused, quit_requested, fsmVars, nav_step_index>>
    /\ UNCHANGED <<twinVars, detVars, mjpegVars, busVars, mainVars, tickVars, extraVars>>
    /\ IF reader_ret[t] = NoFrame
       THEN /\ ok
            /\ reader_pc' = [reader_pc EXCEPT ![t] = "idle"]
            /\ UNCHANGED <<sent_to, cam_pc>>
       ELSE IF ok
       THEN /\ sent_to' = t
            /\ reader_pc' = [reader_pc EXCEPT ![t] = "idle"]
            /\ UNCHANGED cam_pc
       ELSE /\ reader_pc' = [reader_pc EXCEPT ![t] = "closed"]
            /\ cam_pc' = "ended"
            /\ sent_to' = "none"

\* _send_stream after `frame = self.shared_frame`: nothing to send, or
\* imencode and wfile.write, then time.sleep; a write that raises (the
\* client left) is caught by `except: pass` and the handler returns.
\* Its local `frame` is dead from here on.
Handler_send(t, ok) ==
    /\ program = "teleop"
    /\ pc # "done"
    /\ reader_pc[t] = "use"
    /\ reader_ret' = [reader_ret EXCEPT ![t] = NoFrame]
    /\ HandlerIdle
    /\ UNCHANGED in_motor
    /\ IF reader_ret[t] = NoFrame
       THEN /\ ok
            /\ reader_pc' = [reader_pc EXCEPT ![t] = "idle"]
            /\ UNCHANGED sent_to
       ELSE IF ok
       THEN /\ sent_to' = t
            /\ reader_pc' = [reader_pc EXCEPT ![t] = "idle"]
       ELSE /\ reader_pc' = [reader_pc EXCEPT ![t] = "closed"]
            /\ sent_to' = "none"

InitServe ==
    /\ MotorController_init
    /\ connected
    /\ NoNavigator
    /\ NoTwins /\ NoDetector /\ NoMjpeg /\ NoBus
    /\ NoTick
    /\ NoExtra
    /\ program \in {"teleop", "nav"}
    /\ main_pc = "loop"
    /\ terminal = "cbreak"
    /\ process = "running"
    /\ temp_dir = "none"
    /\ http_server = IF program = "teleop" THEN "serving" ELSE "none"
    /\ exit_path = "none"
    /\ pc = "loop"
    /\ current_mode = "stop"
    /\ frame_lock = "free"
    /\ cam_pc = "decode"
    /\ decoded = 0
    /\ frame_count = 0
    /\ published = <<>>
    /\ reader_pc = [t \in ServeThreads |-> "idle"]
    /\ reader_ret = [t \in ServeThreads |-> NoFrame]
    /\ shared_lock = "free"
    /\ shared_frame = NoFrame
    /\ in_motor = {}
    /\ shared_stats = "stop"
    /\ sent_to = "none"

NextServe ==
    \/ \E key \in ServeKeys : Ctl_key(key)
    \/ \E call \in NavCalls : Ctl_nav_enter(call)
    \/ Ctl_exit
    \/ Ctl_break
    \/ Ctl_finally_enter
    \/ Ctl_finally_exit
    \/ \E t \in ServeThreads \cup {"capture"} : Serve_camera(t)
    \/ \E t \in Handlers, ok \in BOOLEAN : Handler_send(t, ok)

SpecServe == InitServe /\ [][NextServe]_vars

(* ------------------------------------------------------------------ *)
(* Specification SpecFn: the pure functions applied to their inputs    *)
(* ------------------------------------------------------------------ *)

\* Whole degrees given to deg2dxl, on both sides of zero.
MaxDeg == 200

\* Amplitude factors n/d given to amplify_sequence: n up to MaxFactorNum,
\* d up to MaxFactorDen.
MaxFactorNum == 6
MaxFactorDen == 5

Degrees == -MaxDeg..MaxDeg

Factors == {<<n, d>> : n \in 0..MaxFactorNum, d \in 1..MaxFactorDen}

\* The gait tables of the program.
Gaits == {SEQ_MOVE_F, SEQ_MOVE_B, SEQ_SLIDE_L, SEQ_SLIDE_R, SEQ_PIVOT_L, SEQ_PIVOT_R}

\* Width of the frames of the camera (CAMERA_WIDTH), and a width that
\* another caller of FastCamera(width=...) may ask for.
Widths == {640, 320}

\* goal_pos = max(0, min(4095, deg2dxl(angles[i])))
goal_pos(angle) == Clamp(deg2dxl(angle))

\* third_w = w // 3, and the test on cx in the contour loop of detect.
pos(cx, w) ==
    LET third_w == w \div 3
    IN  IF cx < third_w THEN "G"
        ELSE IF cx > 2 * third_w THEN "D"
        ELSE "C"

FnIdle ==
    UNCHANGED <<mcVars, obsVars, pc, current_mode, navVars, twinVars, detVars,
                camVars, mjpegVars, busVars, sysVars, hxVars, fn, args>>

Apply_deg2dxl ==
    /\ fn = "deg2dxl"
    /\ result = Pending
    /\ result' = <<deg2dxl(<<args[1], 1>>)>>
    /\ FnIdle

Apply_goal_pos ==
    /\ fn = "goal_pos"
    /\ result = Pending
    /\ result' = <<goal_pos(<<args[1], 1>>)>>
    /\ FnIdle

Apply_amplify_sequence ==
    /\ fn = "amplify_sequence"
    /\ result = Pending
    /\ result' = <<amplify_sequence(args[1], args[2])>>
    /\ FnIdle

Apply_pos ==
    /\ fn = "pos"
    /\ result = Pending
    /\ result' = <<pos(args[1], args[2])>>
    /\ FnIdle

InitFn ==
    /\ MotorController_init
    /\ ~connected
    /\ NoNavigator
    /\ NoSystem
    /\ NoHexapodController
    /\ NoTwins /\ NoDetector /\ NoCameraThreads /\ NoMjpeg /\ NoBus
    /\ pc = "fn"
    /\ current_mode = "stop"
    /\ result = Pending
    /\ \/ fn = "deg2dxl" /\ args \in {<<deg>> : deg \in Degrees}
       \/ fn = "goal_pos" /\ args \in {<<deg>> : deg \in Degrees}
       \/ fn = "amplify_sequence" /\ args \in Gaits \X Factors
       \/ fn = "pos" /\ args \in {<<cx, w>> : cx \in 0..639, w \in Widths}

NextFn ==
    \/ Apply_deg2dxl
    \/ Apply_goal_pos
    \/ Apply_amplify_sequence
    \/ Apply_pos

SpecFn == InitFn /\ [][NextFn]_vars

(* ------------------------------------------------------------------ *)
(* Specification SpecHexapod: HexapodController, main loop and listener *)
(* ------------------------------------------------------------------ *)

HxThreads == {"main", "listener"}

\* len(MOVEMENTS[name]).
Keyframes(name) == IF name = "still" THEN 1 ELSE 4

\* What the listener reads from input(), and the movement a command selects.
Commands == {"z", "s", "q", "d", "a", "e", "r", "x", "h", "quit"}

Selected(c) ==
    CASE c = "z" -> "forward"
      [] c = "s" -> "backward"
      [] c = "q" -> "strafe_left"
      [] c = "d" -> "strafe_right"
      [] c = "a" -> "rotate_left"
      [] c = "e" -> "rotate_right"
      [] OTHER -> "still"

HxIdle ==
    UNCHANGED <<mcVars, obsVars, navVars, current_mode, pc, twinVars, detVars, camVars,
                mjpegVars, busVars, sysVars, fnVars>>

\* The daemon listener lives as long as the main thread.
Alive(t) == hx_pc["main"].at # "done" /\ hx_pc[t].at # "done"

At(t, at) == Alive(t) /\ hx_pc[t].at = at /\ hx_pc[t].em = "out"

Goto(t, at) == hx_pc' = [hx_pc EXCEPT ![t] = [at |-> at, em |-> "out"]]

\* self.execute_movement(name), to continue at `at` once it has returned.
Call_execute_movement(t, name, at) ==
    /\ hx_pc' = [hx_pc EXCEPT ![t] = [at |-> at, em |-> "mark"]]
    /\ hx_left' = [hx_left EXCEPT ![t] = Keyframes(name)]

\* execute_movement: self.movement_in_progress = True.
Exec_mark(t) ==
    /\ Alive(t)
    /\ hx_pc[t].em = "mark"
    /\ movement_in_progress' = TRUE
    /\ hx_pc' = [hx_pc EXCEPT ![t].em = "for"]
    /\ UNCHANGED <<running, current_movement, movement_lock, hx_left, movement, command>>
    /\ HxIdle

\* for keyframe in keyframes: if not self.running: break, else
\* execute_keyframe is entered; the loop ends when no keyframe is left.
Exec_for(t) ==
    /\ Alive(t)
    /\ hx_pc[t].em = "for"
    /\ IF hx_left[t] > 0 /\ running
       THEN /\ hx_pc' = [hx_pc EXCEPT ![t].em = "execute_keyframe"]
            /\ hx_left' = [hx_left EXCEPT ![t] = @ - 1]
       ELSE /\ hx_pc' = [hx_pc EXCEPT ![t].em = "finally"]
            /\ UNCHANGED hx_left
    /\ UNCHANGED <<running, current_movement, movement_in_progress, movement_lock,
                   movement, command>>
    /\ HxIdle

\* execute_keyframe returns: the goal positions were written and reached.
Exec_keyframe_return(t) ==
    /\ Alive(t)
    /\ hx_pc[t].em = "execute_keyframe"
    /\ hx_pc' = [hx_pc EXCEPT ![t].em = "for"]
    /\ UNCHANGED <<running, current_movement, movement_in_progress, movement_lock, hx_left,
                   movement, command>>
    /\ HxIdle

\* finally: self.movement_in_progress = False, and the return.
Exec_finally(t) ==
    /\ Alive(t)
    /\ hx_pc[t].em = "finally"
    /\ movement_in_progress' = FALSE
    /\ hx_pc' = [hx_pc EXCEPT ![t].em = "out"]
    /\ UNCHANGED <<running, current_movement, movement_lock, hx_left, movement, command>>
    /\ HxIdle

\* run: the initial execute_movement("still"), before the listener exists.
Run_initial_still ==
    /\ At("main", "start")
    /\ Call_execute_movement("main", "still", "spawn")
    /\ UNCHANGED <<running, current_movement, movement_in_progress, movement_lock,
                   movement, command>>
    /\ HxIdle

\* run: listener_thread.start().
Run_spawn ==
    /\ At("main", "spawn")
    /\ hx_pc' = [hx_pc EXCEPT !["main"] = [at |-> "while", em |-> "out"],
                              !["listener"] = [at |-> "while", em |-> "out"]]
    /\ UNCHANGED <<running, current_movement, movement_in_progress, movement_lock, hx_left,
                   movement, command>>
    /\ HxIdle

\* run: while self.running.
Run_while ==
    /\ At("main", "while")
    /\ Goto("main", IF running THEN "lock" ELSE "finally")
    /\ UNCHANGED <<running, current_movement, movement_in_progress, movement_lock, hx_left,
                   movement, command>>
    /\ HxIdle

\* with self.movement_lock: entry, by either thread.
Lock_acquire(t) ==
    /\ At(t, "lock")
    /\ movement_lock = "free"
    /\ movement_lock' = t
    /\ Goto(t, "locked")
    /\ UNCHANGED <<running, current_movement, movement_in_progress, hx_left, movement, command>>
    /\ HxIdle

\* run: movement = self.current_movement, and the lock released.
Run_read ==
    /\ At("main", "locked")
    /\ movement' = current_movement
    /\ movement_lock' = "free"
    /\ Goto("main", "test")
    /\ UNCHANGED <<running, current_movement, movement_in_progress, hx_left, command>>
    /\ HxIdle

\* run: if not self.movement_in_progress: self.execute_movement(movement).
Run_test ==
    /\ At("main", "test")
    /\ IF ~movement_in_progress
       THEN Call_execute_movement("main", movement, "sleep")
       ELSE Goto("main", "sleep") /\ UNCHANGED hx_left
    /\ UNCHANGED <<running, current_movement, movement_in_progress, movement_lock,
                   movement, command>>
    /\ HxIdle

\* run: time.sleep(0.05), then the next iteration.
Run_sleep ==
    /\ At("main", "sleep")
    /\ Goto("main", "while")
    /\ UNCHANGED <<running, current_movement, movement_in_progress, movement_lock, hx_left,
                   movement, command>>
    /\ HxIdle

\* run, finally: self.running = False and execute_movement("still").
Run_finally ==
    /\ At("main", "finally")
    /\ running' = FALSE
    /\ Call_execute_movement("main", "still", "disconnect")
    /\ UNCHANGED <<current_movement, movement_in_progress, movement_lock, movement, command>>
    /\ HxIdle

\* run, finally: self.disconnect(); the process ends.
Run_disconnect ==
    /\ At("main", "disconnect")
    /\ Goto("main", "done")
    /\ UNCHANGED <<running, current_movement, movement_in_progress, movement_lock, hx_left,
                   movement, command>>
    /\ HxIdle

\* input_listener: while self.running.
Listener_while ==
    /\ At("listener", "while")
    /\ Goto("listener", IF running THEN "input" ELSE "done")
    /\ UNCHANGED <<running, current_movement, movement_in_progress, movement_lock, hx_left,
                   movement, command>>
    /\ HxIdle

\* input_listener: command = input(...), and the branch taken on it.
Listener_input(c) ==
    /\ At("listener", "input")
    /\ command' = c
    /\ running' = IF c = "quit" THEN FALSE ELSE running
    /\ Goto("listener", IF c \in {"h", "quit"} THEN "while" ELSE "lock")
    /\ UNCHANGED <<current_movement, movement_in_progress, movement_lock, hx_left, movement>>
    /\ HxIdle

\* input_listener: self.current_movement = ... under the lock; 'r' then
\* calls self.execute_movement("still") once the lock is released.
Listener_set ==
    /\ At("listener", "locked")
    /\ current_movement' = Selected(command)
    /\ movement_lock' = "free"
    /\ IF command = "r"
       THEN Call_execute_movement("listener", "still", "while")
       ELSE Goto("listener", "while") /\ UNCHANGED hx_left
    /\ UNCHANGED <<running, movement_in_progress, movement, command>>
    /\ HxIdle

InitHexapod ==
    /\ MotorController_init
    /\ ~connected
    /\ NoNavigator
    /\ NoCameraThreads /\ NoMjpeg
    /\ NoSystem
    /\ NoFunction
    /\ NoTwins /\ NoDetector /\ NoBus
    /\ pc = "hexapod"
    /\ current_mode = "stop"
    /\ running = TRUE
    /\ current_movement = "still"
    /\ movement_in_progress = FALSE
    /\ movement_lock = "free"
    /\ hx_pc = [t \in HxThreads |->
                 [at |-> IF t = "main" THEN "start" ELSE "unstarted", em |-> "out"]]
    /\ hx_left = [t \in HxThreads |-> 0]
    /\ movement = "still"
    /\ command = ""

NextHexapod ==
    \/ \E t \in HxThreads :
         \/ Exec_mark(t)
         \/ Exec_for(t)
         \/ Exec_keyframe_return(t)
         \/ Exec_finally(t)
         \/ Lock_acquire(t)
    \/ Run_initial_still
    \/ Run_spawn
    \/ Run_while
    \/ Run_read
    \/ Run_test
    \/ Run_sleep
    \/ Run_finally
    \/ Run_disconnect
    \/ Listener_while
    \/ \E c \in Commands : Listener_input(c)
    \/ Listener_set

SpecHexapod == InitHexapod /\ [][NextHexapod]_vars

(* ------------------------------------------------------------------ *)
(* Properties of the MotorController (specification Spec)              *)
(* ------------------------------------------------------------------ *)

\* The packet a step of gait a computes from keyframe k (0-based).
PacketOf(a, k) == StagedParams(GaitOf(a)[k + 1])

\* C1 (as claimed): whenever a step of gait B follows a step of another
\* gait A, the B step indexes its table at cursor 0 and broadcasts
\* keyframe 0 of B.
C1_ChangeOfGaitStartsAtZero ==
    [][ ( /\ connected
          /\ current_action \in GaitActions
          /\ current_action' \in GaitActions
          /\ current_action' # current_action )
        => ( /\ lastIdx' = 0
             /\ bus' = PacketOf(current_action', 0) ) ]_vars

\* C2: no operation indexes a gait table outside 0 .. len-1 (no IndexError
\* is raised, the cursor used lies in the table), and the cursor left
\* behind lies in the table of the gait that was stepped.
C2_CursorInRange ==
    /\ err = "none"
    /\ step_index >= 0
    /\ current_action \in GaitActions =>
          /\ lastIdx \in 0 .. (Len(GaitOf(current_action)) - 1)
          /\ step_index \in 0 .. (Len(GaitOf(current_action)) - 1)

\* C2 witness: forward entered with a cursor inherited from another gait,
\* stepped through the last keyframe and wrapped.
C2_Witness ==
    /\ current_action = "forward"
    /\ runLen = -1
    /\ lastIdx = Len(seq_forward) - 1
    /\ step_index = 0

\* C3: every packet on the bus has exactly 12 entries, entry i for motor
\* id i, each goal position in 0..4095; after a gait step entry i carries
\* slot i of the keyframe that was indexed.
C3_TwelveClampedPositions ==
    bus # <<>> =>
        /\ Len(bus) = 12
        /\ \A i \in 1..Len(bus) :
              /\ bus[i].id = i
              /\ GoalOf(bus[i].param) \in 0..4095
              /\ (tx = 1 /\ lastIdx >= 0 /\ err = "none") =>
                    GoalOf(bus[i].param) =
                        Clamp(deg2dxl(GaitOf(current_action)[lastIdx + 1][i]))

\* C3 witness: the last keyframe of slide_right has just been transmitted.
C3_Witness ==
    /\ connected
    /\ tx = 1
    /\ current_action = "slide_right"
    /\ lastIdx = Len(seq_slide_right) - 1
    /\ Len(bus) = 12

\* C8: a run of k consecutive steps of one gait g that began at cursor 0
\* has broadcast keyframe (k-1) mod len(g) last and leaves the cursor at
\* k mod len(g); so after N*len(g) steps the keyframes 0..len(g)-1 went
\* out in order N times and the cursor is 0.
C8_FullRevolutions ==
    (runGait \in GaitActions /\ runLen >= 1) =>
        LET n == Len(GaitOf(runGait))
        IN  /\ current_action = runGait
            /\ lastIdx = (runLen - 1) % n
            /\ step_index = runLen % n
            /\ (runLen % n = 0 => step_index = 0)
            /\ connected => (tx = 1 /\ bus = PacketOf(runGait, (runLen - 1) % n))

\* C8 witness: MaxRev full revolutions of forward from cursor 0.
C8_Witness ==
    /\ connected
    /\ runGait = "forward"
    /\ runLen = MaxRev * Len(seq_forward)
    /\ step_index = 0

(* ------------------------------------------------------------------ *)
(* Properties of the teleoperation loop (specification SpecTeleop)     *)
(* ------------------------------------------------------------------ *)

\* An iteration of the loop that ends with the mode stop.
StopTick == connected /\ pc = "loop" /\ pc' = "loop" /\ current_mode' = "stop"

C4_PausedOnlyInit ==
    [][ paused' =>
          /\ (tx' > 0 => bus' = InitPacket)
          /\ step_index' = (IF paused THEN step_index ELSE 0)
          /\ current_action' = "stop" ]_vars

\* C4 witness: paused after some avoiding steps, with a frame showing a
\* near obstacle published; the bus holds the INIT keyframe.
C4_Witness ==
    /\ connected
    /\ paused
    /\ pc = "keyboard"
    /\ current_frame # NoFrame
    /\ current_frame[1].center = "near"
    /\ escape_steps > 0
    /\ bus = InitPacket
    /\ step_index = 0

\* C5: the keypress that pauses after a Forward keyframe broadcasts INIT;
\* from then on (action stop) nothing is broadcast until a decision, and
\* if that decision is Forward the broadcast is keyframe 0 of FORWARD.
C5_PauseRoundTrip ==
    [][ /\ (connected /\ current_action = "forward" /\ ~paused /\ paused')
             => (tx' = 1 /\ bus' = InitPacket)
        /\ (connected /\ current_action = "stop" /\ decision' = NoDecision
              /\ pc' # "done")
             => tx' = 0
        /\ (connected /\ current_action = "stop" /\ decision'.action = "forward")
             => (tx' = 1 /\ lastIdx' = 0 /\ bus' = PacketOf("forward", 0)) ]_vars

\* C5 witness: after a resume (the navigator's step_index field is set),
\* a Forward decision has just broadcast keyframe 0 of FORWARD.
C5_Witness ==
    /\ connected
    /\ ~paused
    /\ nav_step_index = 0
    /\ decision.action = "forward"
    /\ lastIdx = 0
    /\ runLen = 1
    /\ bus = PacketOf("forward", 0)

\* C6: the keyboard step of an iteration (a pause toggle included) and
\* every step taken while paused leave current_state, escape_direction
\* and escape_steps as they are.
C6_PauseKeepsFsm ==
    [][ (pc = "keyboard" \/ paused \/ paused') => UNCHANGED fsmVars ]_vars

\* C6 witness: just resumed (motors still stopped, body of the iteration
\* next), the escape state of before the pause is still there.
C6_Witness ==
    /\ ~paused
    /\ pc = "body"
    /\ nav_step_index = 0
    /\ current_action = "stop"
    /\ current_state = "AVOIDING"
    /\ escape_direction = "RIGHT"
    /\ escape_steps > 0

C10_WarnCenterSlides ==
    [][ (decision'.danger = "WARN" /\ decision'.position = "CENTER")
          => /\ decision'.action =
                  (IF escape_direction = "RIGHT" THEN "slide_right" ELSE "slide_left")
             /\ escape_direction' =
                  (IF escape_direction = "None" THEN "LEFT" ELSE escape_direction)
             /\ escape_steps' = escape_steps ]_vars

\* C10 witness: a (WARN, Center) decision that initialised the escape
\* direction to LEFT (no escape step had been counted).
C10_Witness ==
    /\ decision.danger = "WARN"
    /\ decision.position = "CENTER"
    /\ decision.action = "slide_left"
    /\ escape_direction = "LEFT"
    /\ escape_steps = 0
    /\ current_state = "AVOIDING"

\* C11 (as claimed): on (WARN, Both), with the step counter at k before the
\* step, the policy emits SlideLeft for k in 0..2, SlideRight for k in 3..5,
\* and at k = 6 one pivot, resetting the counter to 0.
C11_BothBlocksOfSix ==
    [][ (decision'.danger = "WARN" /\ decision'.position = "BOTH")
          => /\ (escape_steps < 3 => decision'.action = "slide_left")
             /\ (escape_steps \in 3..5 => decision'.action = "slide_right")
             /\ (escape_steps >= 6 =>
                    /\ decision'.action \in {"pivot_left", "pivot_right"}
                    /\ escape_steps' = 0) ]_vars

\* C11 (amended): on (WARN, Both) the policy increments escape_steps and
\* emits SlideLeft when the incremented counter modulo 10 is below 5 and
\* SlideRight otherwise; it emits no pivot, never resets the counter and
\* leaves escape_direction as it is.
C11_BothAlternatesByTen ==
    [][ (decision'.danger = "WARN" /\ decision'.position = "BOTH")
          => /\ escape_steps' = escape_steps + 1
             /\ decision'.action =
                  (IF escape_steps' % 10 < 5 THEN "slide_left" ELSE "slide_right")
             /\ escape_direction' = escape_direction
             /\ current_state' = "BLOCKED" ]_vars

\* C11 witness: the seventh (WARN, Both) step of a run begun with the
\* counter at 0 and no escape direction: it slides right, counter 7.
C11_Witness ==
    /\ decision.danger = "WARN"
    /\ decision.position = "BOTH"
    /\ decision.action = "slide_right"
    /\ escape_direction = "None"
    /\ escape_steps = 7

\* C12: on (OBS, Left) the policy sets escape_direction to RIGHT and
\* increments escape_steps, returning slide_right; when the incremented
\* counter exceeds 10 it returns forward and resets the counter to 0.
\* (OBS, Right) is symmetric with slide_left and LEFT.
C12_SideObstacleSlidesAway ==
    [][ /\ (decision'.danger = "OBS" /\ decision'.position = "LEFT")
             => /\ escape_direction' = "RIGHT"
                /\ IF escape_steps + 1 > 10
                   THEN decision'.action = "forward" /\ escape_steps' = 0
                   ELSE decision'.action = "slide_right"
                        /\ escape_steps' = escape_steps + 1
        /\ (decision'.danger = "OBS" /\ decision'.position = "RIGHT")
             => /\ escape_direction' = "LEFT"
                /\ IF escape_steps + 1 > 10
                   THEN decision'.action = "forward" /\ escape_steps' = 0
                   ELSE decision'.action = "slide_left"
                        /\ escape_steps' = escape_steps + 1 ]_vars

\* C12 witness: an (OBS, Left) decision that counted its tenth escape
\* step and still slid right.
C12_Witness ==
    /\ decision.danger = "OBS"
    /\ decision.position = "LEFT"
    /\ decision.action = "slide_right"
    /\ escape_direction = "RIGHT"
    /\ escape_steps = 10

\* C13: on (OK, None), whatever the state of the policy, the action is
\* forward, and afterwards escape_direction is None and escape_steps is 0.
C13_ClearGoesForward ==
    [][ (decision'.danger = "OK" /\ decision'.position = "None")
          => /\ decision'.action = "forward"
             /\ escape_direction' = "None"
             /\ escape_steps' = 0 ]_vars

\* C13 witness: an (OK, None) decision taken right after a slide (the
\* forward step did not begin a run at cursor 0 of its own).
C13_Witness ==
    /\ decision.danger = "OK"
    /\ decision.action = "forward"
    /\ current_state = "FORWARD"
    /\ escape_direction = "None"
    /\ escape_steps = 0
    /\ connected
    /\ lastIdx > 0
    /\ runLen = -1

Accepted == {obstacles[k] : k \in 1..Len(obstacles)}

CenterOver == {o.dist : o \in {c \in Accepted : c.pos = "C" /\ c.dist > 50}}

\* C15: the summary equals the decision list: (STOP, Center) if the
\* largest centre distance above 0.50 is above 0.65, else (WARN, Center)
\* if some centre obstacle is above 0.50, else (WARN, Both) if a left and
\* a right obstacle are above 0.45, else (OBS, Left), else (OBS, Right),
\* else (OK, None).
C15_SummaryIsDecisionList ==
    LET has_center == CenterOver # {}
        d_c == IF has_center
               THEN CHOOSE d \in CenterOver : \A e \in CenterOver : e <= d
               ELSE 0
        has_left == \E o \in Accepted : o.pos = "G" /\ o.dist > 45
        has_right == \E o \in Accepted : o.pos = "D" /\ o.dist > 45
    IN  pc = "detect" =>
          summary =
            IF d_c > 65 THEN [danger |-> "STOP", position |-> "CENTER"]
            ELSE IF has_center THEN [danger |-> "WARN", position |-> "CENTER"]
            ELSE IF has_left /\ has_right THEN [danger |-> "WARN", position |-> "BOTH"]
            ELSE IF has_left THEN [danger |-> "OBS", position |-> "LEFT"]
            ELSE IF has_right THEN [danger |-> "OBS", position |-> "RIGHT"]
            ELSE [danger |-> "OK", position |-> "None"]

\* C15 witness: a centre obstacle at exactly 0.50 (not counted) next to a
\* left one above 0.45 and a right one at exactly 0.45: (OBS, Left).
C15_Witness ==
    /\ pc = "detect"
    /\ [pos |-> "C", dist |-> 50] \in Accepted
    /\ [pos |-> "G", dist |-> 46] \in Accepted
    /\ [pos |-> "D", dist |-> 45] \in Accepted
    /\ summary = [danger |-> "OBS", position |-> "LEFT"]

Rank(danger) ==
    CASE danger = "OK" -> 0
      [] danger = "OBS" -> 1
      [] danger = "WARN" -> 2
      [] danger = "STOP" -> 3

\* C16: the danger label of a frame with one more accepted obstacle is
\* never below the label of the frame without it (OK < OBS < WARN < STOP).
C16_OneMoreNeverLessDangerous ==
    prev_summary # <<>> => Rank(summary.danger) >= Rank(prev_summary[1].danger)

\* C16 witness: a far centre obstacle (0.51) added to a frame that showed
\* a near one (0.66): the label was STOP and stays STOP.
C16_Witness ==
    /\ obstacles = << [pos |-> "C", dist |-> 66], [pos |-> "C", dist |-> 51] >>
    /\ prev_summary = << [danger |-> "STOP", position |-> "CENTER"] >>
    /\ summary.danger = "STOP"

(* ------------------------------------------------------------------ *)
(* Properties of the camera (SpecCamera, SpecCameraFair)               *)
(* ------------------------------------------------------------------ *)

\* The frame most recently written to the slot, or NoFrame.
LatestPublished ==
    IF published = <<>> THEN NoFrame ELSE <<published[Len(published)]>>

\* C17: the slot is None exactly as long as nothing was published and
\* holds the last frame written afterwards; it never reverts to None;
\* and every get_frame call returns, when it reads under the lock, None
\* if nothing was published and the most recently written frame if not.
C17_LatestFrameOrNone ==
    /\ [](/\ (current_frame = NoFrame) <=> (published = <<>>)
          /\ current_frame = LatestPublished
          /\ \A k \in 1..Len(published) : published[k] \in 1..frame_count)
    /\ [][ /\ (current_frame # NoFrame => current_frame' # NoFrame)
           /\ \A t \in FrameReaders :
                (reader_pc[t] = "copy" /\ reader_pc'[t] # "copy")
                   => reader_ret'[t] = LatestPublished ]_vars

\* C17 witness: two frames were published; one reader got the first and
\* is still busy with it, the other called later and got the second.
C17_Witness ==
    /\ pc = "camera"
    /\ published = <<1, 2>>
    /\ reader_ret["video"] = <<1>>
    /\ reader_pc["video"] = "use"
    /\ reader_ret["control"] = <<2>>

\* C19: a thread in a blocking step (network write, sleep, detection)
\* holds neither frame_lock nor shared_lock, and under fair scheduling
\* the capture thread waiting to publish a frame always gets the lock
\* and completes the write.
C19_CaptureNeverStalls ==
    /\ [](\A t \in DOMAIN reader_pc :
            reader_pc[t] = "use" => (frame_lock # t /\ shared_lock # t))
    /\ (cam_pc = "acquire" ~> cam_pc = "decode")

\* C19 witness: the capture thread waits for frame_lock, held by a
\* reader that is copying, while a stream handler is stalled in its
\* network write.
C19_Witness ==
    /\ cam_pc = "acquire"
    /\ frame_lock = "control"
    /\ reader_pc["http"] = "use"
    /\ reader_pc["video"] = "use"

\* Offset in the byte stream of the first byte of image k.
RECURSIVE ImageOffset(_)
ImageOffset(k) == IF k = 1 THEN 0 ELSE ImageOffset(k - 1) + Len(stream[k - 1])

\* C18: every segment handed to the decoder starts with FF D8, ends with
\* FF D9 and is, byte for byte and at its place in the stream, one whole
\* image the subprocess wrote.
C18_OnlyWholeJpegs ==
    \A d \in {jpeg_data[i] : i \in 1..Len(jpeg_data)} :
        /\ Len(d.bytes) >= 4
        /\ SubSeq(d.bytes, 1, 2) = <<"FF", "D8">>
        /\ SubSeq(d.bytes, Len(d.bytes) - 1, Len(d.bytes)) = <<"FF", "D9">>
        /\ \E k \in 1..Len(stream) :
              /\ ImageOffset(k) = d.first
              /\ stream[k] = d.bytes

\* C18 witness: after an image was handed to the decoder the buffer was
\* cut in the middle of a later image (bytes of the stream were dropped
\* up to a place inside it), and the next segment handed over is the
\* image after that one, whole.
C18_Witness ==
    \E i \in 1..(Len(jpeg_data) - 1) : \E k \in 2..(Len(stream) - 1) :
        /\ jpeg_data[i].first < ImageOffset(k)
        /\ jpeg_data[i + 1].first = ImageOffset(k + 1)
        /\ jpeg_data[i + 1].bytes = stream[k + 1]
        /\ Len(stream[k]) = 7

(* ------------------------------------------------------------------ *)
(* Properties of the serial bus (specification SpecBus)                *)
(* ------------------------------------------------------------------ *)

\* C20 (as claimed): the baud rate is set on an opened port and torque
\* is commanded after the baud rate is set; every broadcast is made on
\* the open port with torque enabled on all 12 motors, and the first one
\* is INIT; the port is closed only after an INIT broadcast and the
\* torque disable of all 12 motors; nothing is broadcast once the port
\* is closed.
C20_BusLifecycleOrder ==
    /\ [](/\ (baud_set => port # "unopened")
          /\ (torque # {} => baud_set)
          /\ (connected /\ port = "open" /\ mc_pc # "close" => torque = AllMotors))
    /\ [][ /\ (tx' > 0 =>
                  /\ port = "open"
                  /\ torque = AllMotors
                  /\ (tx_total = 0 => staged' = InitPacket))
           /\ (port = "open" /\ port' = "closed" =>
                  /\ torque = {}
                  /\ bus = InitPacket) ]_vars

(* ------------------------------------------------------------------ *)
(* Properties of the orchestrators (specification SpecMain)            *)
(* ------------------------------------------------------------------ *)

\* C21 (as claimed): when the program has ended, by whichever way main was
\* left, nothing it had acquired is still held: the port is not open with
\* torque enabled on the motors, the camera subprocess is not running,
\* the fallback's directory does not exist, the terminal is not in cbreak
\* mode and the HTTP server is not serving.
C21_ReleasedOnEveryExit ==
    main_pc = "ended" =>
        /\ ~(port = "open" /\ torque = AllMotors)
        /\ process # "running"
        /\ temp_dir # "exists"
        /\ terminal = "cooked"
        /\ http_server # "serving"

\* C22 (as claimed): in teleop, once MotorController() has failed to open
\* the port or to set the baud rate, main never reaches its control loop,
\* and it ends by a startup failure.
C22_PortFailureIsFatal ==
    (program = "teleop" /\ current_action # "unset" /\ ~baud_set) =>
        /\ main_pc # "loop"
        /\ main_pc = "ended" => exit_path \in {"motors", "keyboard", "camera", "http"}

\* C29 (as claimed): when run() is entered the navigator is paused, the
\* gait cursor is 0, escape_direction is None and escape_steps is 0.
C29_EntryIsPaused ==
    main_pc = "run" =>
        /\ paused
        /\ step_index = 0
        /\ escape_direction = "None"
        /\ escape_steps = 0

\* C29 (amended): when run() is entered the navigator is not paused (it
\* navigates from the first iteration on), no quit is requested, the
\* motor controller is at action stop with the gait cursor 0, the state
\* is INIT, escape_direction is None and escape_steps is 0.
C29_EntryIsReset ==
    main_pc = "run" =>
        /\ ~paused
        /\ ~quit_requested
        /\ current_action = "stop"
        /\ step_index = 0
        /\ current_state = "INIT"
        /\ escape_direction = "None"
        /\ escape_steps = 0

\* run() is entered with the motors connected, the terminal in cbreak
\* mode and the camera subprocess running.
C29_Witness ==
    /\ main_pc = "run"
    /\ connected
    /\ terminal = "cbreak"
    /\ process = "running"

(* ------------------------------------------------------------------ *)
(* Properties of _write_positions (specification SpecTick)             *)
(* ------------------------------------------------------------------ *)

\* C23 (as claimed): a transmission of a gait step that fails, by an error
\* code or by an exception, is not fatal and not retried: the loop goes on
\* with the cursor advanced as after a success, and the next call of the
\* same gait is given the next keyframe.
C23_FailedBroadcastIsSkipped ==
    /\ [][(w_pc = "tx" /\ w_ret = "advance" /\ w_fate' \in {"failed", "raised"})
            => /\ pc' = "loop"
               /\ err' = "none"
               /\ step_index' = Advance(w_call[2], Len(GaitOf(w_call[1])))]_vars
    /\ [][(w_fate = "failed" /\ w_fate' = "running" /\ w_call'[1] = w_call[1]
              /\ w_call[1] # "stop" /\ current_mode' = current_mode)
            => w_call'[2] = Advance(w_call[2], Len(GaitOf(w_call[1])))]_vars

\* C24: the packet a call of _write_positions has transmitted is the
\* twelve entries computed from the keyframe that call was given, whatever
\* the call before it staged and however it ended.
C24_TransmitsOwnEntries ==
    w_fate = "ok" => bus = StagedParams(AnglesOf(w_call))

\* A call of the loop was interrupted before it transmitted, and the
\* stop() of the finally block has transmitted the initial pose after it.
C24_Witness ==
    /\ w_fate = "ok"
    /\ w_prev = "interrupted"
    /\ bus = InitPacket
    /\ pc = "finally_disconnect"

\* C25: in teleop a key takes effect before the next broadcast.  The call
\* of _write_positions made in the iteration that read a mapped key is
\* given a keyframe of that key's action (keyframe 0 when the action
\* changed), or the initial pose for the space key; and every call made
\* in the loop, hence every packet it puts on the bus, is of the action
\* of the last mapped key read, never of the action active before it.
C25_KeyBeforeBroadcast ==
    /\ []((pc = "write" /\ w_ret \in {"advance", "loop"}) => w_call[1] = current_mode)
    /\ []((pc = "loop" /\ w_fate = "ok") => bus = StagedParams(AnglesOf(w_call)))
    /\ [][\A key \in MappedKeys :
            (Tick_call(key) /\ connected) =>
                LET a == key_actions(key)
                IN  IF a = "stop"
                    THEN IF current_action # "stop"
                         THEN pc' = "write" /\ w_call' = <<"stop", 0>>
                         ELSE pc' = "loop" /\ bus' = bus
                    ELSE /\ pc' = "write"
                         /\ w_call'[1] = a
                         /\ a # current_mode => w_call'[2] = 0]_vars

\* Keyframe 3 of forward was broadcast, key s was read, and the next
\* packet on the bus is keyframe 0 of backward.
C25_Witness ==
    /\ pc = "loop"
    /\ w_fate = "ok"
    /\ w_prev = "ok"
    /\ w_last = "forward"
    /\ w_call = <<"backward", 0>>
    /\ bus = StagedParams(seq_backward[1])

(* ------------------------------------------------------------------ *)
(* Properties of the navigator without a frame (specification SpecNav) *)
(* ------------------------------------------------------------------ *)

\* C26: an iteration of run in which get_frame returns None broadcasts
\* nothing, leaves the state, the escape direction and the escape counter
\* of the policy as they were, takes no decision, and leaves the motor
\* controller with the current action stop; as long as no frame has been
\* published the current action is stop.
C26_NoFrameNoStep ==
    /\ [](current_frame = NoFrame => current_action = "stop")
    /\ [][(pc = "body" /\ pc' = "keyboard" /\ current_frame = NoFrame) =>
            /\ tx' = 0
            /\ bus' = bus
            /\ UNCHANGED fsmVars
            /\ decision' = NoDecision
            /\ current_action' = "stop"
            /\ step_index' = step_index]_vars

\* The navigator was paused and resumed before any frame was published,
\* and has run an iteration without a frame.
C26_Witness ==
    /\ pc = "keyboard"
    /\ current_frame = NoFrame
    /\ ~paused
    /\ nav_step_index = 0
    /\ tx = 0
    /\ current_action = "stop"

(* ------------------------------------------------------------------ *)
(* Properties of a failed camera (specification SpecCameraFail)        *)
(* ------------------------------------------------------------------ *)

\* C27: once the capture thread has ended on EOF or a read error, every
\* get_frame that returns gives None, and the control loop never goes on
\* to use a frame.
C27_NoFrameAfterFailure ==
    [][\A t \in FrameReaders :
          (cam_pc = "ended" /\ reader_pc[t] = "copy" /\ reader_pc'[t] # "copy") =>
              reader_ret'[t] = NoFrame]_vars

(* ------------------------------------------------------------------ *)
(* Properties of the threads (specification SpecServe)                 *)
(* ------------------------------------------------------------------ *)

\* C28: the bus has one owner.  Only the control loop is ever inside a
\* method of the MotorController, so no two calls overlap, and the
\* connection, the staged parameters and the bus change only in a step
\* of the control loop that returns from such a method.
C28_SingleOwner ==
    /\ [](in_motor \subseteq {"control"})
    /\ []("control" \in in_motor <=> pc \in {"motor", "finally_motor"})
    /\ [][<<connected, staged, bus>>' # <<connected, staged, bus>> =>
            /\ in_motor = {"control"}
            /\ in_motor' = {}
            /\ pc' \in {"loop", "done"}]_vars

\* Teleop: the control loop is inside a gait step while the capture
\* thread writes the frame slot, video_loop holds shared_lock and a
\* handler is about to send.
C28_Witness ==
    /\ program = "teleop"
    /\ in_motor = {"control"}
    /\ current_mode = "forward"
    /\ step_index = 2
    /\ cam_pc = "write"
    /\ shared_lock = "video"
    /\ reader_pc["h1"] = "use"
    /\ reader_ret["h1"] # NoFrame

\* C30: a write that fails in a /stream handler ends that handler and
\* nothing else.  The step leaves the frame slot of the camera, the
\* shared frame, the status snapshot, both locks, the capture thread,
\* video_loop, the other handlers, the control loop and the motors as
\* they were; and a handler that has ended holds no lock.
C30_DisconnectIsLocal ==
    /\ [](\A t \in Handlers :
              reader_pc[t] = "closed" => shared_lock # t /\ frame_lock # t)
    /\ [][\A t \in Handlers :
            (reader_pc[t] # "closed" /\ reader_pc'[t] = "closed") =>
                /\ UNCHANGED <<current_frame, shared_frame, shared_stats>>
                /\ UNCHANGED <<frame_lock, shared_lock>>
                /\ UNCHANGED <<cam_pc, decoded, frame_count, published>>
                /\ UNCHANGED <<pc, current_mode, in_motor, mcVars>>
                /\ \A u \in ServeThreads \ {t} :
                       reader_pc'[u] = reader_pc[u] /\ reader_ret'[u] = reader_ret[u]]_vars

\* The client of h1 has left; since then the last frame published has
\* reached the shared slot and the client of h2 has been served, and the
\* control loop is in a gait step.
C30_Witness ==
    /\ reader_pc["h1"] = "closed"
    /\ sent_to = "h2"
    /\ shared_frame = <<2>>
    /\ pc = "motor"
    /\ current_mode = "forward"

(* ------------------------------------------------------------------ *)
(* Properties of the pure functions (specification SpecFn)             *)
(* ------------------------------------------------------------------ *)

\* C31: for every whole number of degrees from -180 to 180, deg2dxl
\* returns a value from 0 to 4095.
C31_RawInRange ==
    (fn = "deg2dxl" /\ result # Pending /\ args[1] \in -180..180) =>
        result[1] \in 0..4095

\* The largest angle of the range: deg2dxl(180) = 4095 (2048 + 2047.5,
\* truncated).
C31_Witness ==
    /\ fn = "deg2dxl"
    /\ args = <<180>>
    /\ result = <<4095>>

\* The numerators of a table of rationals.
Numerators(table) ==
    [k \in 1..Len(table) |-> [i \in 1..Len(table[k]) |-> table[k][i][1]]]

\* C32: the mean of every column of amplify_sequence(S, f) is the mean of
\* that column of S.  The entries of a column of the result share their
\* denominator den, those of S are hundredths, and both tables have N
\* rows, so the means are equal when 100 * (sum of the numerators) equals
\* den * (sum of the column of S).
C32_MeanKept ==
    (fn = "amplify_sequence" /\ result # Pending) =>
        LET S == args[1]
            R == result[1]
            N == Len(S)
        IN  /\ Len(R) = N
            /\ \A i \in 1..12 :
                  /\ \A k \in 1..N : R[k][i][2] = R[1][i][2] /\ R[k][i][2] > 0
                  /\ 100 * ColumnSum(Numerators(R), i, N) = R[1][i][2] * ColumnSum(S, i, N)

\* The forward table amplified by 6/5: keyframe 1, slot 1 has moved while
\* the means have not.
C32_Witness ==
    /\ fn = "amplify_sequence"
    /\ args = <<SEQ_MOVE_F, <<6, 5>>>>
    /\ result # Pending
    /\ result[1][1][1][1] * 100 # SEQ_MOVE_F[1][1] * result[1][1][1][2]

\* round(n/d) of Python for d > 0: to the nearest integer, a tie to the
\* even one.
PyRound(n, d) ==
    LET lo == IF n >= 0 THEN n \div d ELSE -(((-n) + d - 1) \div d)
        twice == 2 * (n - lo * d)
    IN  IF twice < d THEN lo
        ELSE IF twice > d THEN lo + 1
        ELSE IF lo % 2 = 0 THEN lo ELSE lo + 1

\* C34: for every whole number of degrees from -180 to 180 the value
\* transmitted is round(2048 + deg * 4095 / 360) clamped to 0..4095.
C34_RawIsRounded ==
    (fn = "goal_pos" /\ result # Pending /\ args[1] \in -180..180) =>
        result[1] = Clamp(PyRound(2048 * 8 + 91 * args[1], 8))

\* C35: in a frame 640 wide a centre cx is on the left exactly when
\* cx < 640/3, on the right exactly when cx > 2*640/3, in the centre
\* otherwise.
C35_ZoneByThirds ==
    (fn = "pos" /\ result # Pending /\ args[2] = 640) =>
        result[1] = IF 3 * args[1] < 640 THEN "G"
                    ELSE IF 3 * args[1] > 2 * 640 THEN "D"
                    ELSE "C"

(* ------------------------------------------------------------------ *)
(* Properties of a repeated action (specification SpecTeleop)          *)
(* ------------------------------------------------------------------ *)

\* C33: when an iteration of the teleop loop has broadcast keyframe k of
\* a gait and the next iteration steps the same gait, that step
\* broadcasts keyframe (k + 1) mod len of the gait: the cursor is not
\* reset by repeating the action, whether its key is pressed again or no
\* key is read.
C33_RepeatKeepsCursor ==
    [][(/\ current_action \in GaitActions
        /\ tx = 1
        /\ lastIdx >= 0
        /\ bus = PacketOf(current_action, lastIdx)
        /\ tx' = 1
        /\ lastIdx' >= 0
        /\ current_action' = current_action) =>
            /\ lastIdx' = (lastIdx + 1) % Len(GaitOf(current_action))
            /\ bus' = PacketOf(current_action, lastIdx')]_vars

\* slide_left has stepped twice in a row from cursor 0: keyframe 1 was
\* broadcast after keyframe 0.
C33_Witness ==
    /\ current_mode = "slide_left"
    /\ current_action = "slide_left"
    /\ runGait = "slide_left"
    /\ runLen = 2
    /\ lastIdx = 1
    /\ tx = 1
    /\ bus = PacketOf("slide_left", 1)

(* ------------------------------------------------------------------ *)
(* Properties of the scan buffer (specification SpecMjpegAny)          *)
(* ------------------------------------------------------------------ *)

\* Where the bytes the last iteration took out as an image end, or the
\* start of the buffer before it when it took none.
Consumed ==
    IF jpeg_data' # jpeg_data
    THEN LET img == jpeg_data'[Len(jpeg_data')] IN img.first + Len(img.bytes)
    ELSE buffer_base

\* C36: at the end of every iteration of the read loop the buffer is no
\* longer than the limit (500000 bytes in the code), whatever the stream
\* holds; it is always the tail of the bytes read; and an iteration drops
\* bytes that are in no image only when what is left exceeds the limit,
\* and then keeps the last 100000 bytes (BufferKeep) exactly.
C36_BufferBounded ==
    /\ [](Len(buffer) <= BufferLimit)
    /\ [](buffer = SubSeq(Flatten(stream), buffer_base + 1, read_pos))
    /\ [][(read_pos' > read_pos /\ buffer_base' # Consumed) =>
            /\ read_pos' - Consumed > BufferLimit
            /\ Len(buffer') = BufferKeep]_vars

\* A stream that starts an image and never ends it: the buffer has been
\* cut to its last bytes without any image having been found.
C36_Witness ==
    /\ jpeg_data = <<>>
    /\ Find(Flatten(stream), jpeg_end, 0) = -1
    /\ Find(buffer, jpeg_start, 0) # -1
    /\ buffer_base > 0
    /\ Len(buffer) = BufferKeep

(* ------------------------------------------------------------------ *)
(* Properties of HexapodController (specification SpecHexapod)         *)
(* ------------------------------------------------------------------ *)

\* C37: at most one thread is inside execute_movement at any time, so the
\* main loop and the listener's 'r' command never run execute_keyframe
\* at the same time.
C37_OneThreadMoves ==
    Cardinality({t \in HxThreads : hx_pc[t].em = "execute_keyframe"}) <= 1

(* ------------------------------------------------------------------ *)
(* Properties of the policy in the autonomy loop (specification SpecNav) *)
(* ------------------------------------------------------------------ *)

C39_FsmConsistent ==
    /\ [](decision # NoDecision => current_state \in {"FORWARD", "AVOIDING", "BLOCKED"})
    /\ [](current_state = "FORWARD" => escape_direction = "None" /\ escape_steps = 0)
    /\ [][(escape_direction # "None" /\ escape_direction' # escape_direction) =>
            \/ decision'.danger = "OBS" /\ escape_direction' \in {"LEFT", "RIGHT"}
            \/ decision'.danger = "OK" /\ escape_direction' = "None"]_vars

\* A STOP input met with the escape direction an obstacle on the left set,
\* after escape steps were counted: the direction and the count are kept.
C39_Witness ==
    /\ decision.danger = "STOP"
    /\ current_state = "BLOCKED"
    /\ escape_direction = "RIGHT"
    /\ escape_steps > 0

(* ------------------------------------------------------------------ *)
(* Properties of a repeated shutdown (specification SpecBus)           *)
(* ------------------------------------------------------------------ *)

\* C40: shutdown is idempotent: once the port has been closed, a further
\* stop/disconnect writes nothing to it, and neither the torque disable
\* nor the port close is performed a second time.
C40_ShutdownIdempotent ==
    [][port = "closed" =>
          /\ tx' = 0
          /\ mc_pc' \notin {"torque_off", "close"}
          /\ torque' = torque
          /\ port' = port]_vars

====
